---- MODULE Spec2Model ----
(***************************************************************************)
(* Job orchestration of the Photoshop AI-diffusion panel:                  *)
(* GeneratePanel (runGeneration, handleGenerate, queue handlers),          *)
(* GenerationProvider (live configuration, queue state) and                *)
(* HistoryProvider (history groups).                                       *)
(*                                                                         *)
(* Granularity: JavaScript runs one task at a time, so one action is the   *)
(* code executed between two suspension points (await / setTimeout) of a   *)
(* handler or of runGeneration.  A run's pc names the await it is          *)
(* suspended on.  React state set outside a user event is rendered by a    *)
(* later task (Render); a user event handler is followed by a synchronous  *)
(* render, so its closure values and the queueRef mirror are refreshed as  *)
(* part of the handler's action.                                           *)
(***************************************************************************)
EXTENDS Integers, Sequences, FiniteSets, TLC

\* ------------------------------------------------------------------ bounds
NumRuns    == 2   \* runGeneration activations that may be suspended at once
MaxJobs    == 2   \* generate requests sent (= backend job ids handed out)
MaxItems   == 2   \* queue items ever created
MaxImages  == 2   \* images in one job's result
MaxCancels == 1   \* cancel requests in flight
MaxTimers  == 1   \* pending delayed idle resets
MaxEdits   == 2   \* edits of the live configuration
MaxLen     == 1   \* length of the control-layer / region lists
MaxQueued  == 3   \* queue items created when the queue is studied alone
MaxLog     == 7   \* queue operations recorded in the history

\* ------------------------------------------------------- program constants
FullStrength == 100      \* strength of a pure generation
NoJob        == 0        \* currentJobRef.current === null

VARIABLES
  live,           \* GenerationState: the live configuration
  heap,           \* arrays the configuration and the snapshots refer to
  edits,          \* number of configuration edits made
  queue,          \* GenerationState.queue (React state)
  queueRef,       \* queueRef.current, the mirror refreshed by the effect
  nextItem,       \* next fresh QueueItem id
  isGenerating,   \* GenerationState.isGenerating (React state)
  isGeneratingR,  \* isGenerating as captured by the rendered handlers
  progress,       \* GenerationState.progress, in percent
  currentJobRef,  \* currentJobRef.current (NoJob = null)
  cancelledRef,   \* cancelledRef.current
  runs,           \* the suspended activations of runGeneration
  cancelCalls,    \* cancelJob requests awaited by a cancel handler, per job
  cancelReqs,     \* jobs for which a cancel request was issued
  idleTimers,     \* pending setTimeout(..., 600) idle resets
  nSent,          \* generate requests sent so far
  backend,        \* backend status of each job id
  groups,         \* HistoryProvider.groups
  started,        \* ids of the queue items runGeneration was called with
  alertMsg,       \* alert shown by the latest step (<<>> = none)
  opened,         \* openBrowser was called by the latest step
  dropped,        \* whether Cancel All was used, and the ids of the items it removed
  log,            \* history of the queue operations and their results
  livePanel       \* LivePanel: its state, its refs, its timers and its runs

vars == <<live, heap, edits, queue, queueRef, nextItem, isGenerating, isGeneratingR,
          progress, currentJobRef, cancelledRef, runs, cancelCalls, cancelReqs,
          idleTimers, nSent, backend, groups, started, alertMsg, opened,
          dropped, log, livePanel>>

RunIds == 1..NumRuns
JobIds == 1..MaxJobs

\* ------------------------------------------------------------- strings
\* A prompt is a sequence of characters; " " is white space.
RECURSIVE TrimStart(_)
TrimStart(s) == IF s # <<>> /\ Head(s) = " " THEN TrimStart(Tail(s)) ELSE s

RECURSIVE TrimEnd(_)
TrimEnd(s) ==
  IF s # <<>> /\ s[Len(s)] = " " THEN TrimEnd(SubSeq(s, 1, Len(s) - 1)) ELSE s

\* trim() as it would be if it left the string as it is.
Trim_asIs(s) == s

Trim(s) == TrimEnd(TrimStart(s))

CatPrompt == <<"c", "a", "t">>
DogPrompt == <<"d", "o", "g">>

\* ------------------------------------------------------------- messages
NoDocumentMsg  == <<"Please open a document first">>
NoSelectionMsg == <<"No active selection found for inpaint.">>
FailedMsg(m)   == <<"Generation failed: ">> \o m

\* ------------------------------------------------------- configuration
NoStyle == <<>>       \* style: null; a chosen style is the sequence of itself

defaultState ==
  [style |-> NoStyle, prompt |-> <<>>, negativePrompt |-> <<>>, strength |-> 100,
   inpaintMode |-> "automatic", seed |-> 1, fixedSeed |-> FALSE,
   batchSize |-> 4, steps |-> 20, cfgScale |-> 7, sampler |-> "euler",
   scheduler |-> "normal", useStyleDefaults |-> TRUE,
   controlLayers |-> 1, regions |-> 2, loras |-> 3]

defaultHeap == << <<>>, <<>>, <<>> >>

\* The arrays of a configuration or snapshot, read through the heap.
ControlLayersOf(h, s) == h[s.controlLayers]
RegionsOf(h, s)       == h[s.regions]
LorasOf(h, s)         == h[s.loras]

\* buildSnapshot: an object literal that copies the scalar fields and the
\* references to the controlLayers / regions arrays of the rendered state.
buildSnapshot ==
  [prompt |-> live.prompt, negativePrompt |-> live.negativePrompt,
   strength |-> live.strength, inpaintMode |-> live.inpaintMode,
   seed |-> live.seed, fixedSeed |-> live.fixedSeed, batchSize |-> live.batchSize,
   style |-> live.style, steps |-> live.steps, cfgScale |-> live.cfgScale,
   sampler |-> live.sampler, scheduler |-> live.scheduler,
   useStyleDefaults |-> live.useStyleDefaults,
   controlLayers |-> live.controlLayers, regions |-> live.regions,
   loras |-> live.loras]

\* The value of a snapshot with its arrays read out of heap h.
Deep(h, s) ==
  [s EXCEPT !.controlLayers = ControlLayersOf(h, s), !.regions = RegionsOf(h, s),
            !.loras = LorasOf(h, s)]

\* ------------------------------------------------------------- runs
NoMask  == "none"     \* maskBase64 === null
NoImage == "none"     \* imageBase64 === undefined
NoReq   == [sent |-> FALSE]

DoneRun ==
  [pc |-> "done", snap |-> defaultState, item |-> 0, job |-> NoJob,
   mask |-> NoMask, image |-> NoImage, k |-> 0, control |-> <<>>,
   regionArgs |-> <<>>, req |-> NoReq]

Live(r)   == runs[r].pc # "done"
NoLiveRun == \A r \in RunIds : ~Live(r)
InWindow(r) == runs[r].pc \in {"submit", "sleep", "status", "images"}

\* The shared state one task of runGeneration reads and writes, as a record.
Ctx(r) ==
  [isGenerating |-> isGenerating, progress |-> progress,
   currentJob |-> currentJobRef, cancelled |-> cancelledRef,
   queue |-> queue, groups |-> groups, timers |-> idleTimers,
   sent |-> nSent, started |-> started, alert |-> <<>>, opened |-> FALSE,
   run |-> runs[r]]

Commit(r, c) ==
  /\ isGenerating' = c.isGenerating
  /\ progress' = c.progress
  /\ currentJobRef' = c.currentJob
  /\ cancelledRef' = c.cancelled
  /\ queue' = c.queue
  /\ groups' = c.groups
  /\ idleTimers' = c.timers
  /\ nSent' = c.sent
  /\ started' = c.started
  /\ alertMsg' = c.alert
  /\ opened' = c.opened
  /\ runs' = [runs EXCEPT ![r] = c.run]

Return(c) == [c EXCEPT !.run = DoneRun]

\* takeNextQueueItem as it would be without setQueue(rest).
takeNextQueueItem_keepsQueue(c) ==
  IF queueRef = <<>>
    THEN [has |-> FALSE, c |-> c]
    ELSE [has |-> TRUE, item |-> Head(queueRef), c |-> c]

\* takeNextQueueItem as it would be if it set the queue state and handed
\* nothing back.
takeNextQueueItem_returnsNothing(c) ==
  IF queueRef = <<>>
    THEN [has |-> FALSE, c |-> c]
    ELSE [has |-> FALSE, c |-> [c EXCEPT !.queue = Tail(queueRef)]]

\* takeNextQueueItem: destructures queueRef.current and sets the queue state.
takeNextQueueItem(c) ==
  IF queueRef = <<>>
    THEN [has |-> FALSE, c |-> c]
    ELSE [has |-> TRUE, item |-> Head(queueRef),
          c |-> [c EXCEPT !.queue = Tail(queueRef)]]

\* Catch as it would be if the error handler went on to the next queue item.
Catch_takesNext(c, m) ==
  LET t == takeNextQueueItem(c) IN
  Return([t.c EXCEPT !.isGenerating = FALSE, !.progress = 0,
                     !.currentJob = NoJob, !.alert = FailedMsg(m)])

\* Catch as it would be if the error handler also emptied the queue.
Catch_clearsQueue(c, m) ==
  Return([c EXCEPT !.isGenerating = FALSE, !.progress = 0, !.queue = <<>>,
                   !.currentJob = NoJob, !.alert = FailedMsg(m)])

\* catch (error): the handler at the end of runGeneration's try block.
Catch(c, m) ==
  Return([c EXCEPT !.isGenerating = FALSE, !.progress = 0,
                   !.currentJob = NoJob, !.alert = FailedMsg(m)])

\* runGeneration(snapshot) up to its first await (hasActiveSelection).
RECURSIVE runGeneration(_, _, _, _)
runGeneration(c, snapshot, item, hasDoc) ==
  LET c1 == [c EXCEPT !.started = @ \cup (IF item = 0 THEN {} ELSE {item})] IN
  IF Trim(snapshot.prompt) = <<>>
    THEN LET t == takeNextQueueItem(c1) IN
         IF t.has THEN runGeneration(t.c, t.item.snapshot, t.item.id, hasDoc)
                  ELSE Return(t.c)
    ELSE IF ~hasDoc
      THEN Return([c1 EXCEPT !.alert = NoDocumentMsg, !.isGenerating = FALSE,
                             !.progress = 0, !.currentJob = NoJob])
      ELSE [c1 EXCEPT !.isGenerating = TRUE, !.progress = 0, !.cancelled = FALSE,
                      !.run = [DoneRun EXCEPT !.pc = "sel", !.snap = snapshot,
                                              !.item = item]]

\* The cancelled branch as it would be if a cancel ended the run at once.
CancelledBranch_stops(c, hasDoc) == Return(c)

\* if (cancelledRef.current) { next = takeNextQueueItem(); ... return }
CancelledBranch(c, hasDoc) ==
  LET t == takeNextQueueItem(c) IN
  IF t.has THEN runGeneration(t.c, t.item.snapshot, t.item.id, hasDoc)
           ELSE Return(t.c)

\* ------------------------------------------------------ generate request
\* snapshot.controlLayers.filter(l => l.isEnabled && (!!l.image || l.layerId !== null))
ActiveControlLayers(h, s) ==
  SelectSeq(ControlLayersOf(h, s),
            LAMBDA l : l.isEnabled /\ (l.image # NoImage \/ l.layerId # 0))

\* snapshot.regions.some(r => r.isVisible && r.prompt.trim())
ActiveRegions(h, s) ==
  SelectSeq(RegionsOf(h, s), LAMBDA g : g.isVisible /\ Trim(g.prompt) # <<>>)

mapControlMode(mode) ==
  CASE mode = "canny"    -> "canny_edge"
    [] mode = "lineart"  -> "line_art"
    [] mode = "softedge" -> "soft_edge"
    [] OTHER             -> mode

isRefineMode(s) == s.strength < FullStrength

\* EffectiveSeed as it would be if it read the configuration of the moment
\* the request is built.
EffectiveSeed_live(s) == IF live.fixedSeed THEN live.seed ELSE -1

\* seed: snapshot.fixedSeed ? snapshot.seed : -1
EffectiveSeed(s) == IF s.fixedSeed THEN s.seed ELSE -1

\* ------------------------------------------------------------- styles
\* A template is a sequence in which the element Placeholder stands for the
\* text {prompt}.
Placeholder == "{prompt}"

\* The settings as they are stored at first: no prompt translation.
getSettings == [enablePromptTranslation |-> FALSE, promptTranslation |-> <<"e", "n">>]

applyPromptTranslation(prompt, settings) ==
  IF ~settings.enablePromptTranslation THEN prompt
  ELSE IF Trim(settings.promptTranslation) = <<>> THEN prompt
  ELSE IF Trim(prompt) = <<>> THEN prompt
  ELSE <<"lang:">> \o Trim(settings.promptTranslation) \o <<" ">> \o prompt
         \o <<" ", "lang:en", " ">>

\* stylePrompt.replace('{prompt}', userPrompt) puts the prompt in the place
\* of the first placeholder; a template without one comes back as it is.
applyStylePrompt(stylePrompt, userPrompt) ==
  IF stylePrompt = <<>> \/ stylePrompt = <<Placeholder>> THEN userPrompt
  ELSE IF \E i \in 1..Len(stylePrompt) : stylePrompt[i] = Placeholder
    THEN LET i == CHOOSE k \in 1..Len(stylePrompt) :
                    /\ stylePrompt[k] = Placeholder
                    /\ \A m \in 1..(k - 1) : stylePrompt[m] # Placeholder
         IN SubSeq(stylePrompt, 1, i - 1) \o userPrompt
              \o SubSeq(stylePrompt, i + 1, Len(stylePrompt))
    ELSE stylePrompt

mergeNegativePrompts(styleNegative, userNegative) ==
  IF styleNegative = <<>> THEN userNegative
  ELSE IF userNegative = <<>> THEN styleNegative
  ELSE styleNegative \o <<",", " ">> \o userNegative

\* style.checkpoints?.[0] || ''
getStyleCheckpoint(style) ==
  IF Len(style.checkpoints) > 0 THEN style.checkpoints[1] ELSE ""

\* SAMPLER_PRESETS[presetName] || { sampler: 'euler', scheduler: 'normal' }
resolveStyleSampler(presetName) ==
  CASE presetName = "Default - DPM++ 2M" ->
         [sampler |-> "dpmpp_2m", scheduler |-> "karras"]
    [] presetName = "Alternative - Euler A" ->
         [sampler |-> "euler_ancestral", scheduler |-> "normal"]
    [] presetName = "Creative - DPM++ 2M SDE" ->
         [sampler |-> "dpmpp_2m_sde_gpu", scheduler |-> "karras"]
    [] presetName = "Fast - UniPC BH2" ->
         [sampler |-> "uni_pc_bh2", scheduler |-> "gits"]
    [] presetName = "Euler beta" ->
         [sampler |-> "euler", scheduler |-> "beta"]
    [] presetName = "Turbo/Lightning Merge - DPM++ SDE" ->
         [sampler |-> "dpmpp_sde_gpu", scheduler |-> "karras"]
    [] presetName = "Lightning Merge - Euler A Uniform" ->
         [sampler |-> "euler_ancestral", scheduler |-> "sgm_uniform"]
    [] presetName = "Realtime - Hyper" ->
         [sampler |-> "euler", scheduler |-> "sgm_uniform"]
    [] presetName = "SD3 - DPM++ 2M Uniform" ->
         [sampler |-> "dpmpp_2m", scheduler |-> "sgm_uniform"]
    [] presetName = "Flux - Euler simple" ->
         [sampler |-> "euler", scheduler |-> "simple"]
    [] presetName = "Flux - Turbo" ->
         [sampler |-> "euler", scheduler |-> "simple"]
    [] presetName = "Flux 2 - Euler" ->
         [sampler |-> "euler", scheduler |-> "flux2"]
    [] OTHER ->
         [sampler |-> "euler", scheduler |-> "normal"]

\* const finalPrompt = ... const finalSteps = ...: the values of the request
\* that come from the snapshot and its style.
StyleMerge(s) ==
  LET settings == getSettings
      translatedPrompt == applyPromptTranslation(s.prompt, settings)
      translatedNegative == applyPromptTranslation(s.negativePrompt, settings)
      has == s.style # NoStyle
      style == s.style[1]
      resolvedStyleSampler ==
        IF has THEN resolveStyleSampler(style.sampler)
               ELSE [sampler |-> "euler", scheduler |-> "normal"]
      byStyle == s.useStyleDefaults /\ has
  IN [finalPrompt |-> IF has THEN applyStylePrompt(style.style_prompt, translatedPrompt)
                             ELSE translatedPrompt,
      finalNegative |-> IF has THEN mergeNegativePrompts(style.negative_prompt,
                                                          translatedNegative)
                               ELSE translatedNegative,
      checkpoint |-> IF has THEN getStyleCheckpoint(style) ELSE "",
      finalSampler |-> IF byStyle THEN resolvedStyleSampler.sampler ELSE s.sampler,
      finalScheduler |-> IF byStyle THEN resolvedStyleSampler.scheduler ELSE s.scheduler,
      finalCfgScale |-> IF byStyle THEN style.cfg_scale ELSE s.cfgScale,
      finalSteps |-> IF byStyle THEN style.steps ELSE s.steps]

\* The request as it would be with the first conditional spread only.
GenerateRequest_refineOnly(s, loras, maskBase64, imageBase64, control, regionArgs) ==
  LET merged == StyleMerge(s)
      fields == {"prompt", "negative_prompt", "seed", "inpaint_mode", "batch_size",
                 "model", "sampler", "scheduler", "cfg_scale", "steps",
                 "loras", "sent"}
                  \cup (IF maskBase64 # NoMask THEN {"mask"} ELSE {})
                  \cup (IF s.strength < FullStrength THEN {"image", "strength"} ELSE {})
  IN [f \in fields |->
        CASE f = "prompt"          -> merged.finalPrompt
          [] f = "negative_prompt" -> merged.finalNegative
          [] f = "model"           -> merged.checkpoint
          [] f = "sampler"         -> merged.finalSampler
          [] f = "scheduler"       -> merged.finalScheduler
          [] f = "cfg_scale"       -> merged.finalCfgScale
          [] f = "steps"           -> merged.finalSteps
          [] f = "seed"            -> EffectiveSeed(s)
          [] f = "inpaint_mode"    -> s.inpaintMode
          [] f = "batch_size"      -> s.batchSize
          [] f = "sent"            -> TRUE
          [] f = "loras"           -> <<>>
          [] f = "mask"            -> maskBase64
          [] f = "image"           -> imageBase64
          [] f = "strength"        -> [num |-> s.strength, den |-> 100]]

\* The object passed to generate(): the fields that are always present, the
\* fields dropped when undefined, and the two conditional spreads.
GenerateRequest(s, loras, maskBase64, imageBase64, control, regionArgs) ==
  LET attach == isRefineMode(s) \/ (~isRefineMode(s) /\ maskBase64 # NoMask)
      named == SelectSeq(loras, LAMBDA l : Trim(l.name) # <<>>)
      merged == StyleMerge(s)
      fields == {"prompt", "negative_prompt", "seed", "inpaint_mode", "batch_size",
                 "model", "sampler", "scheduler", "cfg_scale", "steps",
                 "loras", "sent"}
                  \cup (IF maskBase64 # NoMask THEN {"mask"} ELSE {})
                  \cup (IF Len(control) > 0 THEN {"control"} ELSE {})
                  \cup (IF Len(regionArgs) > 0 THEN {"regions"} ELSE {})
                  \cup (IF attach THEN {"image", "strength"} ELSE {})
  IN [f \in fields |->
        CASE f = "prompt"          -> merged.finalPrompt
          [] f = "negative_prompt" -> merged.finalNegative
          [] f = "model"           -> merged.checkpoint
          [] f = "sampler"         -> merged.finalSampler
          [] f = "scheduler"       -> merged.finalScheduler
          [] f = "cfg_scale"       -> merged.finalCfgScale
          [] f = "steps"           -> merged.finalSteps
          [] f = "seed"            -> EffectiveSeed(s)
          [] f = "inpaint_mode"    -> s.inpaintMode
          [] f = "batch_size"      -> s.batchSize
          [] f = "sent"            -> TRUE
          [] f = "loras"           -> [i \in 1..Len(named) |->
                                         [name |-> Trim(named[i].name),
                                          strength |-> named[i].strength]]
          [] f = "mask"            -> maskBase64
          [] f = "control"         -> control
          [] f = "regions"         -> regionArgs
          [] f = "image"           -> imageBase64
          [] f = "strength"        -> [num |-> s.strength, den |-> 100]]

\* await generate({...}): the request leaves; the run waits for the response.
SendGenerate(c) ==
  LET run == c.run IN
  [c EXCEPT !.progress = 0, !.sent = @ + 1,
            !.run = [run EXCEPT !.pc = "submit", !.job = c.sent + 1,
                                !.req = GenerateRequest(run.snap, LorasOf(heap, run.snap),
                                                        run.mask, run.image,
                                                        run.control, run.regionArgs)]]

AfterControl(c) ==
  IF Len(ActiveRegions(heap, c.run.snap)) > 0
    THEN [c EXCEPT !.progress = 0, !.run = [@ EXCEPT !.pc = "regions"]]
    ELSE SendGenerate(c)

AfterCapture(c) ==
  IF Len(ActiveControlLayers(heap, c.run.snap)) > 0
    THEN [c EXCEPT !.progress = 0, !.run = [@ EXCEPT !.pc = "control", !.k = 1]]
    ELSE AfterControl(c)

\* BeforeDocument as it would be if the document were captured for a
\* refine only.
BeforeDocument_refineOnly(c) ==
  IF isRefineMode(c.run.snap)
    THEN [c EXCEPT !.progress = 0, !.run = [@ EXCEPT !.pc = "doc"]]
    ELSE AfterCapture(c)

\* if (isRefineMode || maskBase64) imageBase64 = await getDocumentImageBase64()
BeforeDocument(c) ==
  IF isRefineMode(c.run.snap) \/ c.run.mask # NoMask
    THEN [c EXCEPT !.progress = 0, !.run = [@ EXCEPT !.pc = "doc"]]
    ELSE AfterCapture(c)

\* The code after the poll loop: the cancelled branch, else the image fetch.
AfterLoop(c, hasDoc) ==
  IF c.cancelled THEN CancelledBranch(c, hasDoc)
                 ELSE [c EXCEPT !.run = [@ EXCEPT !.pc = "images"]]

\* LoopCheck as it would be if the loop were left after its first check.
LoopCheck_leavesAtOnce(c, finished, hasDoc) == AfterLoop(c, hasDoc)

\* while (!finished && !cancelledRef.current) { await sleep ...
LoopCheck(c, finished, hasDoc) ==
  IF ~finished /\ ~c.cancelled
    THEN [c EXCEPT !.run = [@ EXCEPT !.pc = "sleep"]]
    ELSE AfterLoop(c, hasDoc)

\* ------------------------------------------------------------ backend
Terminal == {"finished", "error", "interrupted"}
Statuses == {"queued", "executing"} \cup Terminal
Fractions == {50}          \* status.progress, in percent

\* The JSON body of a non-success response: detail and error, "" when absent.
ErrorBodies ==
  [detail : {"", "server busy"}, error : {"", "bad request"}]

NoBody == [detail |-> "", error |-> ""]

\* The bodies an answer can come with: one of ErrorBodies if it is a
\* non-success response, none otherwise.
BodiesOf(ok) == IF ok THEN {NoBody} ELSE ErrorBodies

\* throw new Error(error.detail || error.error || fallback)
ErrorMessage(body, fallback) ==
  IF body.detail # "" THEN body.detail
  ELSE IF body.error # "" THEN body.error
  ELSE fallback

\* GET /jobs/{id}/images answering with n images: payloads and seeds by index.
JobImages(j, n) ==
  [images |-> [i \in 1..n |-> 100 * j + i], seeds |-> [i \in 1..n |-> 10 * j + i]]

\* historyImages as it would be if the seeds were read from the other end.
historyImages_seedsReversed(resp) ==
  [i \in 1..Len(resp.images) |->
     [index |-> i - 1, thumbnail |-> resp.images[i], applied |-> FALSE,
      seed |-> resp.seeds[Len(resp.seeds) + 1 - i]]]

\* imagesResponse.images.map((img, i) => ({ index: i, thumbnail, applied, seed }))
historyImages(resp) ==
  [i \in 1..Len(resp.images) |->
     [index |-> i - 1, thumbnail |-> resp.images[i], applied |-> FALSE,
      seed |-> resp.seeds[i]]]

historyGroup(jobId, s, resp) ==
  [job_id |-> jobId, prompt |-> s.prompt, negative_prompt |-> s.negativePrompt,
   strength |-> s.strength, images |-> historyImages(resp)]

\* addGenerationResult as it would be if a group with the same prompt were
\* replaced by the new one.
addGenerationResult_mergeByPrompt(gs, group) ==
  IF \E i \in 1..Len(gs) : gs[i].prompt = group.prompt
    THEN [i \in 1..Len(gs) |-> IF gs[i].prompt = group.prompt THEN group ELSE gs[i]]
    ELSE Append(gs, group)

\* addGenerationResult: setGroups(prev => [...prev, group])
addGenerationResult(gs, group) == Append(gs, group)

\* ------------------------------------------------------------ rendering
\* The handlers and the queueRef mirror are those of the latest render.
Rendered == queueRef = queue /\ isGeneratingR = isGenerating

\* A re-render after state was set outside a user event, with its effect
\* queueRef.current = queue.
Render ==
  /\ ~Rendered
  /\ queueRef' = queue
  /\ isGeneratingR' = isGenerating
  /\ alertMsg' = <<>>
  /\ opened' = FALSE
  /\ UNCHANGED <<livePanel, dropped, log, live, heap, edits, queue, nextItem, isGenerating, progress,
                 currentJobRef, cancelledRef, runs, cancelCalls, cancelReqs,
                 idleTimers, nSent, backend, groups, started>>

\* A task of run r resumed by a timer or a response: it runs after the
\* pending render, and leaves its own state changes to a later render.
Resume(r, c) ==
  /\ Rendered
  /\ c.sent <= MaxJobs
  /\ c.timers <= MaxTimers
  /\ Commit(r, c)
  /\ UNCHANGED <<livePanel, dropped, log, live, heap, edits, queueRef, nextItem, isGeneratingR,
                 cancelCalls, cancelReqs>>

\* ------------------------------------------------- runGeneration, resumed
\* RunSelection as it would be without the inpaint check.
RunSelection_noCheck(r, hasSelection) ==
  /\ runs[r].pc = "sel"
  /\ LET c == Ctx(r)
         d == IF hasSelection
                THEN [c EXCEPT !.progress = 0, !.run = [@ EXCEPT !.pc = "mask"]]
                ELSE BeforeDocument(c)
     IN Resume(r, d)
  /\ UNCHANGED backend

\* const hasSelection = await hasActiveSelection()
RunSelection(r, hasSelection) ==
  /\ runs[r].pc = "sel"
  /\ LET c == Ctx(r)
         d == IF ~hasSelection /\ c.run.snap.inpaintMode # "automatic"
                THEN Return([c EXCEPT !.isGenerating = FALSE, !.progress = 0,
                                      !.alert = NoSelectionMsg])
                ELSE IF hasSelection
                  THEN [c EXCEPT !.progress = 0, !.run = [@ EXCEPT !.pc = "mask"]]
                  ELSE BeforeDocument(c)
     IN Resume(r, d)
  /\ UNCHANGED backend

\* maskBase64 = await getSelectionMaskBase64(): a mask, an empty value, or a throw
RunMask(r, res) ==
  /\ runs[r].pc = "mask"
  /\ LET c == Ctx(r)
         d == CASE res = "mask"  -> BeforeDocument([c EXCEPT !.run = [@ EXCEPT !.mask = "mask"]])
                [] res = "empty" -> Catch(c, <<"Failed to capture selection mask: Selection mask is empty">>)
                [] OTHER         -> Catch(c, <<"Failed to capture selection mask: Unknown error">>)
     IN Resume(r, d)
  /\ UNCHANGED backend

\* imageBase64 = await getDocumentImageBase64()
RunDocument(r, ok) ==
  /\ runs[r].pc = "doc"
  /\ LET c == Ctx(r)
         d == IF ok THEN AfterCapture([c EXCEPT !.run = [@ EXCEPT !.image = "doc"]])
                    ELSE Catch(c, <<"Failed to capture document: Unknown error">>)
     IN Resume(r, d)
  /\ UNCHANGED backend

\* One pass of the loop over activeControlLayers (its awaits taken together).
RunControlLayer(r, ok) ==
  /\ runs[r].pc = "control"
  /\ LET c == Ctx(r)
         acl == ActiveControlLayers(heap, c.run.snap)
         k == c.run.k
         d == IF k > Len(acl) THEN AfterControl(c)
              ELSE IF ~ok THEN Catch(c, <<"Failed to process control layer ", acl[k].layerName>>)
              ELSE LET arg == [mode |-> mapControlMode(acl[k].mode),
                               image |-> IF acl[k].image # NoImage THEN acl[k].image
                                                                  ELSE "layer",
                               strength |-> acl[k].strength,
                               preprocessor |-> acl[k].isPreprocessor]
                       c2 == [c EXCEPT !.run = [@ EXCEPT !.control = Append(@, arg),
                                                         !.k = k + 1]]
                   IN IF k + 1 > Len(acl) THEN AfterControl(c2) ELSE c2
     IN Resume(r, d)
  /\ UNCHANGED backend

\* The loop of buildRegionArgs over the active regions: masked holds the
\* positions of the regions a mask is found for (captured or stored); a
\* region without one is skipped.
RegionArgs(act, masked) ==
  LET idx == SelectSeq([i \in 1..Len(act) |-> i], LAMBDA i : i \in masked)
  IN [k \in 1..Len(idx) |-> [positive |-> act[idx[k]].prompt, mask |-> "mask"]]

\* regionArgs = await buildRegionArgs(snapshot.regions); a capture that
\* throws is caught by neither function and goes to the catch block.
RunRegions(r, ok, masked) ==
  /\ runs[r].pc = "regions"
  /\ LET c == Ctx(r)
         act == ActiveRegions(heap, c.run.snap)
         args == RegionArgs(act, masked)
         d == IF ok THEN SendGenerate([c EXCEPT !.run = [@ EXCEPT !.regionArgs = args]])
                    ELSE Catch(c, <<"Unknown error">>)
     IN Resume(r, d)
  /\ UNCHANGED backend

\* const response = await generate(...); currentJobRef.current = response.job_id
RunSubmit(r, ok, hasDoc) ==
  /\ runs[r].pc = "submit"
  /\ \E body \in BodiesOf(ok) :
       LET c == Ctx(r)
           j == c.run.job
           d == IF ok THEN LoopCheck([c EXCEPT !.currentJob = j], FALSE, hasDoc)
                      ELSE Catch(c, <<ErrorMessage(body, "Generation failed")>>)
       IN /\ Resume(r, d)
          /\ backend' = IF ok THEN [backend EXCEPT ![j] = "queued"] ELSE backend

\* await new Promise(resolve => setTimeout(resolve, POLL_INTERVAL));
\* if (cancelledRef.current) break; const status = await getJobStatus(jobId)
RunWake(r, hasDoc) ==
  /\ runs[r].pc = "sleep"
  /\ LET c == Ctx(r)
         d == IF c.cancelled THEN AfterLoop(c, hasDoc)
                             ELSE [c EXCEPT !.run = [@ EXCEPT !.pc = "status"]]
     IN Resume(r, d)
  /\ UNCHANGED backend

\* The inputs of one status response besides the job's status st: whether
\* the request succeeded, the progress fraction of an executing job, the
\* error text and payment record of a failed one and the user's answer to
\* confirm(), and whether a document is open.  A request that failed has
\* no status record, and nothing is asked of the user or the editor.
StatusInputs(st) ==
  {in \in [ok : BOOLEAN,
           fraction : IF st = "executing" THEN Fractions ELSE {0},
           error : IF st = "error" THEN {"", "out of memory"} ELSE {""},
           payment : IF st = "error" THEN {"none", "url"} ELSE {"none"},
           confirm : IF st = "error" THEN BOOLEAN ELSE {FALSE},
           hasDoc : BOOLEAN] :
     in.ok \/ (in.error = "" /\ in.payment = "none" /\ ~in.confirm /\ ~in.hasDoc)}

\* PaymentRequired as it would be if the billing page were opened without
\* waiting for the user's answer.
PaymentRequired_opensUnasked(c, in) ==
  [c EXCEPT !.opened = in.payment # "none"]

\* if (status.payment_required?.url) { if (confirm(message)) openBrowser(url) }
PaymentRequired(c, in) ==
  [c EXCEPT !.opened = in.payment # "none" /\ in.confirm]

\* RunStatus as it would be if a status request that failed were made again
\* after the next poll sleep.
RunStatus_retries(r, in) ==
  /\ runs[r].pc = "status"
  /\ \E body \in BodiesOf(in.ok) :
     LET c == Ctx(r)
         st == backend[c.run.job]
         d == IF ~in.ok THEN LoopCheck(c, FALSE, in.hasDoc)
              ELSE CASE st = "queued" ->
                          LoopCheck([c EXCEPT !.progress = 0], FALSE, in.hasDoc)
                     [] st = "executing" ->
                          LoopCheck([c EXCEPT !.progress = in.fraction], FALSE, in.hasDoc)
                     [] st = "finished" ->
                          LoopCheck([c EXCEPT !.progress = 100], TRUE, in.hasDoc)
                     [] st = "error" ->
                          Catch(PaymentRequired(c, in),
                                IF in.error # "" THEN <<in.error>> ELSE <<"Generation failed">>)
                     [] OTHER ->
                          LoopCheck(c, TRUE, in.hasDoc)
     IN Resume(r, d)
  /\ UNCHANGED backend

\* switch (status.status) { ... } and the loop condition after it.
RunStatus(r, in) ==
  /\ runs[r].pc = "status"
  /\ \E body \in BodiesOf(in.ok) :
     LET c == Ctx(r)
         st == backend[c.run.job]
         d == IF ~in.ok THEN Catch(c, <<ErrorMessage(body, "Failed to get job status")>>)
              ELSE CASE st = "queued" ->
                          LoopCheck([c EXCEPT !.progress = 0], FALSE, in.hasDoc)
                     [] st = "executing" ->
                          LoopCheck([c EXCEPT !.progress = in.fraction], FALSE, in.hasDoc)
                     [] st = "finished" ->
                          LoopCheck([c EXCEPT !.progress = 100], TRUE, in.hasDoc)
                     [] st = "error" ->
                          Catch(PaymentRequired(c, in),
                                IF in.error # "" THEN <<in.error>> ELSE <<"Generation failed">>)
                     [] OTHER ->
                          LoopCheck(c, TRUE, in.hasDoc)
     IN Resume(r, d)
  /\ UNCHANGED backend

\* RunImages as it would be without the check for an empty result.
RunImages_emptyAccepted(r, ok, n, hasDoc) ==
  /\ runs[r].pc = "images"
  /\ LET c == Ctx(r)
         resp == JobImages(c.run.job, n)
         d == IF ~ok THEN Catch(c, <<"Failed to get job images">>)
              ELSE LET c2 == [c EXCEPT !.groups = addGenerationResult(@,
                                           historyGroup(c.run.job, c.run.snap, resp)),
                                       !.progress = 100, !.currentJob = NoJob]
                       t == takeNextQueueItem(c2)
                   IN IF t.has THEN runGeneration(t.c, t.item.snapshot, t.item.id, hasDoc)
                               ELSE Return([t.c EXCEPT !.timers = @ + 1])
     IN Resume(r, d)
  /\ UNCHANGED backend

\* const imagesResponse = await getJobImages(jobId) and the code up to the
\* end of the try block.
RunImages(r, ok, n, hasDoc) ==
  /\ runs[r].pc = "images"
  /\ \E body \in BodiesOf(ok) :
     LET c == Ctx(r)
         resp == JobImages(c.run.job, n)
         d == IF ~ok THEN Catch(c, <<ErrorMessage(body, "Failed to get job images")>>)
              ELSE IF Len(resp.images) = 0 THEN Catch(c, <<"No images generated">>)
              ELSE LET c2 == [c EXCEPT !.groups = addGenerationResult(@,
                                           historyGroup(c.run.job, c.run.snap, resp)),
                                       !.progress = 100, !.currentJob = NoJob]
                       t == takeNextQueueItem(c2)
                   IN IF t.has THEN runGeneration(t.c, t.item.snapshot, t.item.id, hasDoc)
                               ELSE Return([t.c EXCEPT !.timers = @ + 1])
     IN Resume(r, d)
  /\ UNCHANGED backend

\* IdleReset as it would be if the timer only cleared the progress.
IdleReset_progressOnly ==
  /\ Rendered
  /\ idleTimers > 0
  /\ idleTimers' = idleTimers - 1
  /\ progress' = 0
  /\ alertMsg' = <<>>
  /\ opened' = FALSE
  /\ UNCHANGED <<livePanel, dropped, log, live, heap, edits, queue, queueRef, nextItem, isGenerating,
                 isGeneratingR, currentJobRef, cancelledRef, runs, cancelCalls,
                 cancelReqs, nSent, backend, groups, started>>

\* setTimeout(() => { setIsGenerating(false); setProgress(0) }, 600)
IdleReset ==
  /\ Rendered
  /\ idleTimers > 0
  /\ idleTimers' = idleTimers - 1
  /\ isGenerating' = FALSE
  /\ progress' = 0
  /\ alertMsg' = <<>>
  /\ opened' = FALSE
  /\ UNCHANGED <<livePanel, dropped, log, live, heap, edits, queue, queueRef, nextItem, isGeneratingR,
                 currentJobRef, cancelledRef, runs, cancelCalls, cancelReqs,
                 nSent, backend, groups, started>>

\* --------------------------------------------------------- user handlers
FreeRuns == {r \in RunIds : ~Live(r)}
FirstFree == CHOOSE r \in FreeRuns : \A q \in FreeRuns : r <= q

PendingCancels == LET RECURSIVE Sum(_)
                      Sum(j) == IF j = 0 THEN 0 ELSE cancelCalls[j] + Sum(j - 1)
                  IN Sum(MaxJobs)

\* The first part of the cancel path shared by handleGenerate and
\* handleCancelAll: cancelledRef.current = true; await cancelJob(currentJobRef.current)
RequestCancel ==
  /\ PendingCancels < MaxCancels
  /\ cancelledRef' = TRUE
  /\ cancelCalls' = [cancelCalls EXCEPT ![currentJobRef] = @ + 1]
  /\ cancelReqs' = cancelReqs \cup {currentJobRef}

\* handleGenerate while a job is shown as active: the cancel path.
HandleGenerateCancel ==
  /\ isGeneratingR /\ currentJobRef # NoJob
  /\ RequestCancel
  /\ alertMsg' = <<>>
  /\ opened' = FALSE
  /\ UNCHANGED <<livePanel, dropped, log, live, heap, edits, queue, queueRef, nextItem, isGenerating,
                 isGeneratingR, progress, currentJobRef, runs, idleTimers, nSent,
                 backend, groups, started>>

\* handleGenerate otherwise: if (!prompt.trim()) return;
\* await runGeneration(buildSnapshot())
HandleGenerateStart(hasDoc) ==
  /\ ~(isGeneratingR /\ currentJobRef # NoJob)
  /\ Trim(live.prompt) # <<>>
  /\ FreeRuns # {}
  /\ LET r == FirstFree
         c == runGeneration(Ctx(r), buildSnapshot, 0, hasDoc)
     IN /\ Commit(r, c)
        /\ queueRef' = c.queue
        /\ isGeneratingR' = c.isGenerating
  /\ UNCHANGED <<livePanel, dropped, log, live, heap, edits, nextItem, cancelCalls, cancelReqs, backend>>

\* CancelReturns as it would be if a failed request left the handler at once.
CancelReturns_failureSkipsCleanup(j, ok) ==
  /\ Rendered
  /\ cancelCalls[j] > 0
  /\ cancelCalls' = [cancelCalls EXCEPT ![j] = @ - 1]
  /\ backend' = IF ok /\ backend[j] \in {"queued", "executing"}
                  THEN [backend EXCEPT ![j] = "interrupted"] ELSE backend
  /\ isGenerating' = (IF ok THEN FALSE ELSE isGenerating)
  /\ progress' = (IF ok THEN 0 ELSE progress)
  /\ currentJobRef' = (IF ok THEN NoJob ELSE currentJobRef)
  /\ alertMsg' = <<>>
  /\ opened' = FALSE
  /\ UNCHANGED <<livePanel, dropped, log, live, heap, edits, queue, queueRef, nextItem, isGeneratingR,
                 cancelledRef, runs, cancelReqs, idleTimers, nSent, groups, started>>

\* The code after await cancelJob(...) in handleGenerate and handleCancelAll;
\* a request that fails is logged only.  The backend interrupts a job that
\* has not ended when it serves the request.
CancelReturns(j, ok) ==
  /\ Rendered
  /\ cancelCalls[j] > 0
  /\ cancelCalls' = [cancelCalls EXCEPT ![j] = @ - 1]
  /\ backend' = IF ok /\ backend[j] \in {"queued", "executing"}
                  THEN [backend EXCEPT ![j] = "interrupted"] ELSE backend
  /\ isGenerating' = FALSE
  /\ progress' = 0
  /\ currentJobRef' = NoJob
  /\ alertMsg' = <<>>
  /\ opened' = FALSE
  /\ UNCHANGED <<livePanel, dropped, log, live, heap, edits, queue, queueRef, nextItem, isGeneratingR,
                 cancelledRef, runs, cancelReqs, idleTimers, nSent, groups, started>>

\* const item = { id: crypto.randomUUID(), createdAt, snapshot }
NewItem == [id |-> nextItem, snapshot |-> buildSnapshot]

\* if (!prompt.trim()) return
CanQueue == Trim(live.prompt) # <<>>

\* A queue handler: the new queue state, rendered at the end of the event.
SetQueueInEvent(q) ==
  /\ queue' = q
  /\ queueRef' = q
  /\ isGeneratingR' = isGenerating
  /\ alertMsg' = <<>>
  /\ opened' = FALSE

\* enqueueJob(item): setState(s => ({ ...s, queue: [...s.queue, item] }))
enqueueJob(q, item) == Append(q, item)

handleQueueCurrent ==
  /\ CanQueue
  /\ SetQueueInEvent(enqueueJob(queue, NewItem))
  /\ nextItem' = nextItem + 1
  /\ UNCHANGED <<livePanel, dropped, live, heap, edits, isGenerating, progress, currentJobRef,
                 cancelledRef, runs, cancelCalls, cancelReqs, idleTimers, nSent,
                 backend, groups, started>>

\* handleQueueFront as it would be if it put the item behind the others.
handleQueueFront_atBack ==
  /\ CanQueue
  /\ SetQueueInEvent(Append(queueRef, NewItem))
  /\ nextItem' = nextItem + 1
  /\ UNCHANGED <<livePanel, dropped, live, heap, edits, isGenerating, progress, currentJobRef,
                 cancelledRef, runs, cancelCalls, cancelReqs, idleTimers, nSent,
                 backend, groups, started>>

\* handleQueueFront as it would be if it set the queue to the new item alone.
handleQueueFront_dropsRest ==
  /\ CanQueue
  /\ SetQueueInEvent(<<NewItem>>)
  /\ nextItem' = nextItem + 1
  /\ UNCHANGED <<livePanel, dropped, live, heap, edits, isGenerating, progress, currentJobRef,
                 cancelledRef, runs, cancelCalls, cancelReqs, idleTimers, nSent,
                 backend, groups, started>>

\* setQueue([item, ...queueRef.current])
handleQueueFront ==
  /\ CanQueue
  /\ SetQueueInEvent(<<NewItem>> \o queueRef)
  /\ nextItem' = nextItem + 1
  /\ UNCHANGED <<livePanel, dropped, live, heap, edits, isGenerating, progress, currentJobRef,
                 cancelledRef, runs, cancelCalls, cancelReqs, idleTimers, nSent,
                 backend, groups, started>>

\* setQueue([item])
handleQueueReplace ==
  /\ CanQueue
  /\ SetQueueInEvent(<<NewItem>>)
  /\ nextItem' = nextItem + 1
  /\ UNCHANGED <<livePanel, dropped, live, heap, edits, isGenerating, progress, currentJobRef,
                 cancelledRef, runs, cancelCalls, cancelReqs, idleTimers, nSent,
                 backend, groups, started>>

\* removeQueueItem as it would be if it filtered the rendered mirror of the
\* queue instead of the state passed to the updater.
removeQueueItem_fromMirror(id) ==
  /\ \E i \in 1..Len(queueRef) : queueRef[i].id = id
  /\ SetQueueInEvent(SelectSeq(queueRef, LAMBDA item : item.id # id))
  /\ UNCHANGED <<livePanel, dropped, live, heap, edits, nextItem, isGenerating, progress, currentJobRef,
                 cancelledRef, runs, cancelCalls, cancelReqs, idleTimers, nSent,
                 backend, groups, started>>

\* removeQueueItem(id), from the rendered queue list
removeQueueItem(id) ==
  /\ \E i \in 1..Len(queueRef) : queueRef[i].id = id
  /\ SetQueueInEvent(SelectSeq(queue, LAMBDA item : item.id # id))
  /\ UNCHANGED <<livePanel, dropped, live, heap, edits, nextItem, isGenerating, progress, currentJobRef,
                 cancelledRef, runs, cancelCalls, cancelReqs, idleTimers, nSent,
                 backend, groups, started>>

\* clearQueue(), the "Cancel Queued" button
clearQueue ==
  /\ Len(queueRef) > 0
  /\ SetQueueInEvent(<<>>)
  /\ UNCHANGED <<livePanel, dropped, live, heap, edits, nextItem, isGenerating, progress, currentJobRef,
                 cancelledRef, runs, cancelCalls, cancelReqs, idleTimers, nSent,
                 backend, groups, started>>

\* handleCancelAll: setQueue([]) and, if a job is shown as active, the
\* cancel path.
handleCancelAll ==
  /\ isGeneratingR \/ Len(queueRef) > 0
  /\ SetQueueInEvent(<<>>)
  /\ dropped' = [used |-> TRUE,
                 ids |-> dropped.ids \cup {queue[i].id : i \in 1..Len(queue)}]
  /\ IF isGeneratingR /\ currentJobRef # NoJob
       THEN RequestCancel
       ELSE UNCHANGED <<cancelledRef, cancelCalls, cancelReqs>>
  /\ UNCHANGED <<livePanel, log, live, heap, edits, nextItem, isGenerating, progress,
                 currentJobRef, runs, idleTimers, nSent, backend, groups, started>>

\* ------------------------------------------- editing the configuration
\* An edit is a user event: setState(s => ({ ...s, ... })) and the render
\* that follows it.
EditDone ==
  /\ edits < MaxEdits
  /\ edits' = edits + 1
  /\ queueRef' = queue
  /\ isGeneratingR' = isGenerating
  /\ alertMsg' = <<>>
  /\ opened' = FALSE
  /\ UNCHANGED <<livePanel, dropped, log, queue, nextItem, isGenerating, progress, currentJobRef,
                 cancelledRef, runs, cancelCalls, cancelReqs, idleTimers, nSent,
                 backend, groups, started>>

setPrompt(prompt) ==
  /\ live' = [live EXCEPT !.prompt = prompt]
  /\ heap' = heap
  /\ EditDone

setStrength(strength) ==
  /\ live' = [live EXCEPT !.strength = strength]
  /\ heap' = heap
  /\ EditDone

setSeed(seed) ==
  /\ live' = [live EXCEPT !.seed = seed]
  /\ heap' = heap
  /\ EditDone

setFixedSeed(fixedSeed) ==
  /\ live' = [live EXCEPT !.fixedSeed = fixedSeed]
  /\ heap' = heap
  /\ EditDone

setStyle(style) ==
  /\ live' = [live EXCEPT !.style = <<style>>]
  /\ heap' = heap
  /\ EditDone

setUseStyleDefaults(useStyleDefaults) ==
  /\ live' = [live EXCEPT !.useStyleDefaults = useStyleDefaults]
  /\ heap' = heap
  /\ EditDone

\* The array setters as they would be if they changed the array in place.
StoreArray_inPlace(field, arr) ==
  /\ heap' = [heap EXCEPT ![live[field]] = arr]
  /\ live' = live

\* ({ ...s, controlLayers: <a new array> }): the state refers to a new array;
\* the array it referred to before is left as it is.
StoreArray(field, arr) ==
  /\ heap' = Append(heap, arr)
  /\ live' = [live EXCEPT ![field] = Len(heap) + 1]

\* { ...l, ...updates }
Merge(l, updates) ==
  [f \in DOMAIN l |-> IF f \in DOMAIN updates THEN updates[f] ELSE l[f]]

\* s.controlLayers.map(l => (l.id === id ? { ...l, ...updates } : l))
MapUpdate(arr, id, updates) ==
  [i \in 1..Len(arr) |-> IF arr[i].id = id THEN Merge(arr[i], updates) ELSE arr[i]]

addControlLayer ==
  LET newLayer == [id |-> edits + 1, mode |-> "canny", layerId |-> 0, layerName |-> "",
                   image |-> NoImage, strength |-> 100, isEnabled |-> TRUE,
                   isPreprocessor |-> TRUE]
  IN /\ Len(ControlLayersOf(heap, live)) < MaxLen
     /\ StoreArray("controlLayers", Append(ControlLayersOf(heap, live), newLayer))
     /\ EditDone

updateControlLayer(id, updates) ==
  /\ StoreArray("controlLayers", MapUpdate(ControlLayersOf(heap, live), id, updates))
  /\ EditDone

removeControlLayer(id) ==
  /\ StoreArray("controlLayers",
                SelectSeq(ControlLayersOf(heap, live), LAMBDA l : l.id # id))
  /\ EditDone

addRegion ==
  LET newRegion == [id |-> edits + 1, name |-> "Region", prompt |-> <<>>,
                    negativePrompt |-> <<>>, layerId |-> 0, isVisible |-> TRUE]
  IN /\ Len(RegionsOf(heap, live)) < MaxLen
     /\ StoreArray("regions", Append(RegionsOf(heap, live), newRegion))
     /\ EditDone

updateRegion(id, updates) ==
  /\ StoreArray("regions", MapUpdate(RegionsOf(heap, live), id, updates))
  /\ EditDone

removeRegion(id) ==
  /\ StoreArray("regions", SelectSeq(RegionsOf(heap, live), LAMBDA g : g.id # id))
  /\ EditDone

\* ------------------------------------------------------------ backend
\* The backend moves a job on: queued -> executing -> finished, or to error,
\* or to interrupted (an interrupt from outside this client).  Only the jobs
\* a run still polls are followed; what becomes of a job nobody asks about
\* has no effect on the panel.
BackendStep(j, st) ==
  /\ \E r \in RunIds : InWindow(r) /\ runs[r].job = j
  /\ \/ backend[j] = "queued" /\ st \in {"executing", "error", "interrupted"}
     \/ backend[j] = "executing" /\ st \in Terminal
  /\ backend' = [backend EXCEPT ![j] = st]
  /\ UNCHANGED <<livePanel, dropped, log, live, heap, edits, queue, queueRef, nextItem, isGenerating,
                 isGeneratingR, progress, currentJobRef, cancelledRef, runs,
                 cancelCalls, cancelReqs, idleTimers, nSent, groups, started,
                 alertMsg, opened>>

\* ------------------------------------------------------- specification
InitWith(cfg, h) ==
  /\ live = cfg
  /\ heap = h
  /\ edits = 0
  /\ queue = <<>>
  /\ queueRef = <<>>
  /\ nextItem = 1
  /\ isGenerating = FALSE
  /\ isGeneratingR = FALSE
  /\ progress = 0
  /\ currentJobRef = NoJob
  /\ cancelledRef = FALSE
  /\ runs = [r \in RunIds |-> DoneRun]
  /\ cancelCalls = [j \in JobIds |-> 0]
  /\ cancelReqs = {}
  /\ idleTimers = 0
  /\ nSent = 0
  /\ backend = [j \in JobIds |-> "none"]
  /\ groups = <<>>
  /\ started = {}
  /\ alertMsg = <<>>
  /\ opened = FALSE
  /\ dropped = [used |-> FALSE, ids |-> {}]
  /\ log = <<>>
  /\ livePanel = [isLive |-> FALSE, isRefreshing |-> FALSE, currentJobRef |-> NoJob,
                  cancelledRef |-> FALSE, timer |-> FALSE, resets |-> 0, stops |-> 0,
                  previews |-> [r \in RunIds |-> [pc |-> "done", job |-> NoJob]]]

\* The panel with a prompt typed in and an inpaint mode chosen.
Init ==
  \E mode \in {"automatic", "fill"} :
    InitWith([defaultState EXCEPT !.prompt = CatPrompt, !.inpaintMode = mode],
             defaultHeap)

\* The orchestration: Generate / Cancel, enqueue, Cancel All and the runs,
\* in a document without a selection.
QueueCurrent == nextItem <= MaxItems /\ handleQueueCurrent /\ UNCHANGED log

UserStep ==
  \/ HandleGenerateCancel
  \/ \E hasDoc \in BOOLEAN : HandleGenerateStart(hasDoc)
  \/ QueueCurrent
  \/ handleCancelAll

\* The steps of run r: each resumes the run at the await its pc names.
RunStepOf(r) ==
  \/ RunSelection(r, FALSE)
  \/ \E ok, hasDoc \in BOOLEAN : RunSubmit(r, ok, hasDoc)
  \/ \E hasDoc \in BOOLEAN : RunWake(r, hasDoc)
  \/ /\ runs[r].pc = "status"
     /\ \E in \in StatusInputs(backend[runs[r].job]) : RunStatus(r, in)
  \/ \E ok, hasDoc \in BOOLEAN : \E n \in {0, MaxImages} : RunImages(r, ok, n, hasDoc)

RunStep == \E r \in RunIds : RunStepOf(r)

AsyncStep ==
  \/ Render
  \/ IdleReset
  \/ \E j \in JobIds : \E ok \in BOOLEAN : CancelReturns(j, ok)
  \/ \E j \in JobIds : \E st \in Statuses : BackendStep(j, st)

Next == UserStep \/ RunStep \/ AsyncStep

Spec == Init /\ [][Next]_vars

\* The same panel with a user who, once they have cancelled a job, leaves
\* the panel alone, and with the scheduling the runtime guarantees: a
\* pending render is done, a timer fires, a request is answered.
CancelAnswered == \E j \in JobIds : \E ok \in BOOLEAN : CancelReturns(j, ok)

UserStepCancel ==
  /\ cancelReqs = {}
  /\ \/ HandleGenerateCancel
     \/ \E hasDoc \in BOOLEAN : HandleGenerateStart(hasDoc)
     \/ QueueCurrent

NextCancel ==
  \/ UserStepCancel
  \/ RunStep
  \/ Render
  \/ IdleReset
  \/ CancelAnswered
  \/ \E j \in JobIds : \E st \in Statuses : BackendStep(j, st)

SpecCancel ==
  /\ Init
  /\ [][NextCancel]_vars
  /\ \A r \in RunIds : WF_vars(RunStepOf(r))
  /\ WF_vars(Render)
  /\ WF_vars(IdleReset)
  /\ WF_vars(CancelAnswered)

\* The same, with a backend on which every cancel request fails.
CancelFails == \E j \in JobIds : CancelReturns(j, FALSE)

NextCancelFails ==
  \/ UserStepCancel
  \/ RunStep
  \/ Render
  \/ IdleReset
  \/ CancelFails
  \/ \E j \in JobIds : \E st \in Statuses : BackendStep(j, st)

SpecCancelFails ==
  /\ Init
  /\ [][NextCancelFails]_vars
  /\ \A r \in RunIds : WF_vars(RunStepOf(r))
  /\ WF_vars(Render)
  /\ WF_vars(IdleReset)
  /\ WF_vars(CancelFails)

\* The same panel with a user who presses Generate only when no run is
\* under way (and Cancel, enqueue and Cancel All at any time).
UserStepSingle ==
  \/ HandleGenerateCancel
  \/ NoLiveRun /\ \E hasDoc \in BOOLEAN : HandleGenerateStart(hasDoc)
  \/ QueueCurrent
  \/ handleCancelAll

NextSingle == UserStepSingle \/ RunStep \/ AsyncStep

SpecSingle == Init /\ [][NextSingle]_vars

\* One job at a time in full: a configuration with any strength and inpaint
\* mode and a batch size of 2, with or without a control layer bound to a layer
\* of the document and a region with a prompt; every answer of the editor
\* (selection, mask, document, layers) and of the backend.
Layer0 ==
  [id |-> 0, mode |-> "canny", layerId |-> 7, layerName |-> "Layer 7",
   image |-> NoImage, strength |-> 100, isEnabled |-> TRUE, isPreprocessor |-> TRUE]

Region0 ==
  [id |-> 0, name |-> "Region 1", prompt |-> DogPrompt, negativePrompt |-> <<>>,
   layerId |-> 8, isVisible |-> TRUE]

Strengths == {50, 99, FullStrength}

InitJob ==
  \E st \in Strengths, mode \in {"automatic", "fill"},
     cl \in {<<>>, <<Layer0>>}, rg \in {<<>>, <<Region0>>} :
    InitWith([defaultState EXCEPT !.prompt = CatPrompt, !.strength = st,
                                  !.inpaintMode = mode, !.batchSize = 2],
             <<cl, rg, <<>>>>)

GenerateAlone == NoLiveRun /\ \E hasDoc \in BOOLEAN : HandleGenerateStart(hasDoc)

JobStepOf(r) ==
  \/ \E hasSelection \in BOOLEAN : RunSelection(r, hasSelection)
  \/ \E res \in {"mask", "empty", "throw"} : RunMask(r, res)
  \/ \E ok \in BOOLEAN : RunDocument(r, ok)
  \/ \E ok \in BOOLEAN : RunControlLayer(r, ok)
  \/ \E ok \in BOOLEAN, masked \in SUBSET (1..MaxLen) : RunRegions(r, ok, masked)
  \/ \E ok, hasDoc \in BOOLEAN : RunSubmit(r, ok, hasDoc)
  \/ \E hasDoc \in BOOLEAN : RunWake(r, hasDoc)
  \/ /\ runs[r].pc = "status"
     /\ \E in \in StatusInputs(backend[runs[r].job]) : RunStatus(r, in)
  \/ \E ok, hasDoc \in BOOLEAN : \E n \in 0..MaxImages : RunImages(r, ok, n, hasDoc)

NextJob ==
  \/ GenerateAlone
  \/ QueueCurrent
  \/ \E r \in RunIds : JobStepOf(r)
  \/ Render
  \/ IdleReset
  \/ \E j \in JobIds : \E st \in Statuses : BackendStep(j, st)

SpecJob == InitJob /\ [][NextJob]_vars

\* Editing while jobs are queued and run: the edits of the configuration,
\* enqueueing at the back and in front, and runs in which every request
\* succeeds.
InitCfg ==
  \E cl \in {<<>>, <<Layer0>>}, rg \in {<<>>, <<Region0>>} :
    InitWith([defaultState EXCEPT !.prompt = CatPrompt], <<cl, rg, <<>>>>)

LayerIds == {ControlLayersOf(heap, live)[i].id : i \in 1..Len(ControlLayersOf(heap, live))}
RegionIds == {RegionsOf(heap, live)[i].id : i \in 1..Len(RegionsOf(heap, live))}

LayerUpdates == {[isEnabled |-> FALSE], [mode |-> "lineart", strength |-> 50]}
RegionUpdates == {[prompt |-> CatPrompt], [isVisible |-> FALSE]}

EditStep ==
  \/ setPrompt(DogPrompt)
  \/ setStrength(50)
  \/ setSeed(2)
  \/ addControlLayer
  \/ \E id \in LayerIds : \E u \in LayerUpdates : updateControlLayer(id, u)
  \/ \E id \in LayerIds : removeControlLayer(id)
  \/ addRegion
  \/ \E id \in RegionIds : \E u \in RegionUpdates : updateRegion(id, u)
  \/ \E id \in RegionIds : removeRegion(id)

GenerateCfg == NoLiveRun /\ HandleGenerateStart(TRUE)

QueueFrontCfg == nextItem <= MaxItems /\ handleQueueFront /\ UNCHANGED log

GoodRunStepOf(r) ==
  \/ RunSelection(r, FALSE)
  \/ RunControlLayer(r, TRUE)
  \/ RunRegions(r, TRUE, 1..MaxLen)
  \/ RunSubmit(r, TRUE, TRUE)
  \/ RunWake(r, TRUE)
  \/ /\ runs[r].pc = "status"
     /\ \E in \in StatusInputs(backend[runs[r].job]) :
          in.ok /\ in.hasDoc /\ RunStatus(r, in)
  \/ RunImages(r, TRUE, 1, TRUE)

NextCfg ==
  \/ EditStep
  \/ GenerateCfg
  \/ QueueCurrent
  \/ QueueFrontCfg
  \/ \E r \in RunIds : GoodRunStepOf(r)
  \/ Render
  \/ IdleReset
  \/ \E j \in JobIds : \E st \in {"executing", "finished"} : BackendStep(j, st)

SpecCfg == InitCfg /\ [][NextCfg]_vars

\* Styles and seeds: a style chosen or not, its defaults used or not, the
\* seed fixed or not, with a control layer and a region; the edits of these
\* while items wait, and runs in which every request succeeds.
\* Three styles: one whose template wraps the prompt, one whose template
\* has no placeholder, and one without template, checkpoint or known preset.
Styles ==
  {[sampler |-> "Default - DPM++ 2M", cfg_scale |-> 5, steps |-> 30,
    style_prompt |-> <<"a", " ", Placeholder, "!">>, negative_prompt |-> <<"b">>,
    checkpoints |-> <<"sdxl.safetensors">>],
   [sampler |-> "Euler beta", cfg_scale |-> 4, steps |-> 8,
    style_prompt |-> <<"o", "i", "l">>, negative_prompt |-> <<>>,
    checkpoints |-> <<"flux.safetensors", "flux-dev.safetensors">>],
   [sampler |-> "My preset", cfg_scale |-> 3, steps |-> 12,
    style_prompt |-> <<>>, negative_prompt |-> <<"b">>,
    checkpoints |-> <<>>]}

InitStyle ==
  \E style \in {NoStyle} \cup {<<st>> : st \in Styles},
     negative \in {<<>>, <<"u">>} :
    InitWith([defaultState EXCEPT !.prompt = CatPrompt, !.negativePrompt = negative,
                                  !.style = style],
             << <<Layer0>>, <<Region0>>, <<>> >>)

NextStyle ==
  \/ \E st \in Styles : setStyle(st)
  \/ setUseStyleDefaults(~live.useStyleDefaults)
  \/ setFixedSeed(~live.fixedSeed)
  \/ setSeed(2)
  \/ GenerateCfg
  \/ QueueCurrent
  \/ \E r \in RunIds : GoodRunStepOf(r)
  \/ Render
  \/ IdleReset
  \/ \E j \in JobIds : \E st \in {"executing", "finished"} : BackendStep(j, st)

SpecStyle == InitStyle /\ [][NextStyle]_vars

\* One job and a Cancel All pressed before its id is known: while the run
\* captures its inputs or waits for the answer to its submit.
EarlyCancelAll ==
  /\ \E r \in RunIds : Live(r)
  /\ isGeneratingR /\ currentJobRef = NoJob
  /\ handleCancelAll

NextEarly ==
  \/ nSent = 0 /\ ~dropped.used /\ GenerateAlone
  \/ EarlyCancelAll
  \/ \E r \in RunIds : JobStepOf(r)
  \/ Render
  \/ IdleReset
  \/ \E j \in JobIds : \E st \in Statuses : BackendStep(j, st)

SpecEarly == InitJob /\ [][NextEarly]_vars

\* A queue that is filled, then a Generate, and no user action after it:
\* every capture and request succeeds and the backend brings every job to
\* finished.  The tasks of a run, the renders, the idle timer and the
\* backend are not held back for ever.
DrainStepOf(r) ==
  \/ \E hasSelection \in BOOLEAN :
       /\ hasSelection \/ runs[r].snap.inpaintMode = "automatic"
       /\ RunSelection(r, hasSelection)
  \/ RunMask(r, "mask")
  \/ RunDocument(r, TRUE)
  \/ RunControlLayer(r, TRUE)
  \/ RunRegions(r, TRUE, 1..MaxLen)
  \/ RunSubmit(r, TRUE, TRUE)
  \/ RunWake(r, TRUE)
  \/ /\ runs[r].pc = "status"
     /\ \E in \in StatusInputs(backend[runs[r].job]) :
          in.ok /\ in.hasDoc /\ RunStatus(r, in)
  \/ \E n \in 1..MaxImages : RunImages(r, TRUE, n, TRUE)

NextDrain ==
  \/ nSent = 0 /\ NoLiveRun /\ Len(queue) < MaxJobs - 1 /\ QueueCurrent
  \/ nSent = 0 /\ GenerateCfg
  \/ \E r \in RunIds : DrainStepOf(r)
  \/ Render
  \/ IdleReset
  \/ \E j \in JobIds : \E st \in {"executing", "finished"} : BackendStep(j, st)

SpecDrain ==
  /\ InitJob
  /\ [][NextDrain]_vars
  /\ \A r \in RunIds : WF_vars(DrainStepOf(r))
  /\ WF_vars(Render)
  /\ WF_vars(IdleReset)
  /\ WF_vars(\E j \in JobIds : \E st \in {"executing", "finished"} : BackendStep(j, st))

\* runGeneration called on a snapshot with a blank prompt while nothing runs.
\* The handlers of the panel test prompt.trim() before they build a
\* snapshot, so the call is made here as a caller without that test would.
RunBlank(prompt, hasDoc) ==
  /\ NoLiveRun /\ Rendered /\ ~isGenerating
  /\ LET r == FirstFree
         c == runGeneration(Ctx(r), [buildSnapshot EXCEPT !.prompt = prompt], 0, hasDoc)
     IN /\ Commit(r, c)
        /\ queueRef' = c.queue
        /\ isGeneratingR' = c.isGenerating
  /\ UNCHANGED <<livePanel, dropped, log, live, heap, edits, nextItem, cancelCalls, cancelReqs, backend>>

NextBlank ==
  \/ NoLiveRun /\ QueueCurrent
  \/ \E prompt \in {<<>>, <<" ">>} : \E hasDoc \in BOOLEAN : RunBlank(prompt, hasDoc)
  \/ \E r \in RunIds : JobStepOf(r)
  \/ Render
  \/ IdleReset
  \/ \E j \in JobIds : \E st \in Statuses : BackendStep(j, st)

SpecBlank == InitJob /\ [][NextBlank]_vars

\* ------------------------------------------------------------- history
\* applyImage(jobId, index): the image at the position index of the group
\* jobId is marked as applied.  The layer calls that follow change nothing
\* of the history.
applyImage(jobId, index) ==
  /\ groups' = [g \in 1..Len(groups) |->
                 IF groups[g].job_id = jobId
                   THEN [groups[g] EXCEPT !.images =
                          [i \in 1..Len(@) |->
                             IF i - 1 = index THEN [@[i] EXCEPT !.applied = TRUE]
                                              ELSE @[i]]]
                   ELSE groups[g]]
  /\ UNCHANGED <<livePanel, dropped, log, live, heap, edits, queue, queueRef, nextItem, isGenerating,
                 isGeneratingR, progress, currentJobRef, cancelledRef, runs,
                 cancelCalls, cancelReqs, idleTimers, nSent, backend, started,
                 alertMsg, opened>>

\* discardImage as it would be without .filter(g => g.images.length > 0).
discardImage_keepsEmpty(jobId, index) ==
  /\ groups' = [g \in 1..Len(groups) |->
                 IF groups[g].job_id = jobId
                   THEN [groups[g] EXCEPT !.images =
                          LET imgs == @ IN
                          IF index + 1 \in 1..Len(imgs)
                            THEN SubSeq(imgs, 1, index) \o SubSeq(imgs, index + 2, Len(imgs))
                            ELSE imgs]
                   ELSE groups[g]]
  /\ UNCHANGED <<livePanel, dropped, log, live, heap, edits, queue, queueRef, nextItem, isGenerating,
                 isGeneratingR, progress, currentJobRef, cancelledRef, runs,
                 cancelCalls, cancelReqs, idleTimers, nSent, backend, started,
                 alertMsg, opened>>

\* discardImage(jobId, index): the image at the position index is taken out
\* of the group jobId, and groups left without an image are dropped.
discardImage(jobId, index) ==
  /\ groups' = SelectSeq(
                 [g \in 1..Len(groups) |->
                    IF groups[g].job_id = jobId
                      THEN [groups[g] EXCEPT !.images =
                             LET imgs == @ IN
                             IF index + 1 \in 1..Len(imgs)
                               THEN SubSeq(imgs, 1, index)
                                      \o SubSeq(imgs, index + 2, Len(imgs))
                               ELSE imgs]
                      ELSE groups[g]],
                 LAMBDA g : Len(g.images) > 0)
  /\ UNCHANGED <<livePanel, dropped, log, live, heap, edits, queue, queueRef, nextItem, isGenerating,
                 isGeneratingR, progress, currentJobRef, cancelledRef, runs,
                 cancelCalls, cancelReqs, idleTimers, nSent, backend, started,
                 alertMsg, opened>>

clearHistory ==
  /\ groups' = <<>>
  /\ UNCHANGED <<livePanel, dropped, log, live, heap, edits, queue, queueRef, nextItem, isGenerating,
                 isGeneratingR, progress, currentJobRef, cancelledRef, runs,
                 cancelCalls, cancelReqs, idleTimers, nSent, backend, started,
                 alertMsg, opened>>

\* Jobs that record their groups, and the history panel used meanwhile.
NextHistory ==
  \/ GenerateCfg
  \/ \E r \in RunIds : DrainStepOf(r)
  \/ \E r \in RunIds : RunImages(r, TRUE, 0, TRUE)
  \/ Render
  \/ IdleReset
  \/ \E j \in JobIds : \E st \in {"executing", "finished"} : BackendStep(j, st)
  \/ \E jobId \in JobIds : \E index \in 0..MaxImages : applyImage(jobId, index)
  \/ \E jobId \in JobIds : \E index \in 0..MaxImages : discardImage(jobId, index)
  \/ groups # <<>> /\ clearHistory

SpecHistory == InitJob /\ [][NextHistory]_vars

\* ---------------------------------------------------------- live panel
\* The state a task of the live panel reads and writes, as a record.
LiveCtx ==
  [lp |-> livePanel, isGenerating |-> isGenerating, progress |-> progress,
   sent |-> nSent, alert |-> <<>>, cancelReqs |-> cancelReqs]

\* The state is set and the panel rendered; the effect of the panel clears
\* its debounce timer and, in live mode, sets a new one whenever isLive or
\* isRefreshing has changed.
LiveCommit(c) ==
  /\ c.sent <= MaxJobs
  /\ c.lp.resets <= MaxTimers
  /\ livePanel' =
       IF c.lp.isLive = livePanel.isLive /\ c.lp.isRefreshing = livePanel.isRefreshing
         THEN c.lp
         ELSE [c.lp EXCEPT !.timer = c.lp.isLive]
  /\ isGenerating' = c.isGenerating
  /\ isGeneratingR' = c.isGenerating
  /\ progress' = c.progress
  /\ nSent' = c.sent
  /\ alertMsg' = c.alert
  /\ cancelReqs' = c.cancelReqs
  /\ UNCHANGED <<dropped, log, live, heap, edits, queue, queueRef, nextItem,
                 currentJobRef, cancelledRef, runs, cancelCalls, idleTimers,
                 backend, groups, started, opened>>

\* runLivePreview as activation r: from its call (pc = "done") to its first
\* await, or from the await its pc names to the next one.  in.ok is whether
\* the awaited call succeeded, in.st the status and in.n the number of
\* images it answered with.
runLivePreview(c, r, in) ==
  LET pc == c.lp.previews[r].pc
      job == c.lp.previews[r].job
      Await(d, to) == [d EXCEPT !.lp = [@ EXCEPT !.previews = [@ EXCEPT ![r] = [@ EXCEPT !.pc = to]]]]
      InFinally(d) ==
        [d EXCEPT !.isGenerating = FALSE,
                  !.lp = [@ EXCEPT !.currentJobRef = NoJob, !.isRefreshing = FALSE,
                                   !.previews = [@ EXCEPT ![r] = [pc |-> "done", job |-> NoJob]]]]
      Caught(d) == InFinally([d EXCEPT !.alert = <<"Live preview failed: ">>])
      SendPreview(d) ==
        [d EXCEPT !.sent = @ + 1,
                  !.lp = [@ EXCEPT !.previews =
                            [@ EXCEPT ![r] = [pc |-> "submit", job |-> d.sent + 1]]]]
      PollLoop(d, finished) ==
        IF ~finished /\ ~d.lp.cancelledRef THEN Await(d, "sleep")
        ELSE IF d.lp.cancelledRef THEN InFinally(d)
        ELSE Await(d, "images")
  IN CASE pc = "done" ->
            IF Trim(live.prompt) = <<>> THEN c
            ELSE IF ~in.hasDoc THEN [c EXCEPT !.alert = NoDocumentMsg]
            ELSE IF ~in.isConnected
              THEN [c EXCEPT !.alert = <<"Please connect to the bridge first">>]
            ELSE LET d == [c EXCEPT !.isGenerating = TRUE, !.progress = 0,
                                    !.lp = [@ EXCEPT !.isRefreshing = TRUE,
                                                     !.cancelledRef = FALSE]]
                 IN IF isRefineMode(live) THEN Await(d, "doc") ELSE SendPreview(d)
       [] pc = "doc" -> IF in.ok THEN SendPreview(c) ELSE Caught(c)
       [] pc = "submit" ->
            IF in.ok THEN PollLoop([c EXCEPT !.lp = [@ EXCEPT !.currentJobRef = job]], FALSE)
                     ELSE Caught(c)
       [] pc = "sleep" ->
            IF c.lp.cancelledRef THEN InFinally(c) ELSE Await(c, "status")
       [] pc = "status" ->
            IF ~in.ok THEN Caught(c)
            ELSE (CASE in.st = "queued" -> PollLoop([c EXCEPT !.progress = 0], FALSE)
                    [] in.st = "executing" -> PollLoop([c EXCEPT !.progress = 50], FALSE)
                    [] in.st = "finished" -> PollLoop([c EXCEPT !.progress = 100], TRUE)
                    [] in.st = "error" -> Caught(c)
                    [] in.st = "interrupted" -> PollLoop(c, TRUE))
       [] pc = "images" ->
            IF in.ok /\ in.n > 0 THEN Await(c, "layer") ELSE Caught(c)
       [] pc = "layer" ->
            IF in.ok
              THEN InFinally([c EXCEPT !.progress = 100, !.lp = [@ EXCEPT !.resets = @ + 1]])
              ELSE Caught(c)

\* The Refresh button: onClick={runLivePreview}, disabled while refreshing
\* and for a blank prompt.
LiveRefresh(in) ==
  /\ ~livePanel.isRefreshing
  /\ Trim(live.prompt) # <<>>
  /\ \E r \in RunIds : livePanel.previews[r].pc = "done"
  /\ LiveCommit(runLivePreview(LiveCtx, (CHOOSE r \in RunIds : livePanel.previews[r].pc = "done"), in))

\* A task of activation r resumed by the answer it waits for.
LiveStep(r, in) ==
  /\ livePanel.previews[r].pc # "done"
  /\ LiveCommit(runLivePreview(LiveCtx, r, in))

\* handleToggleLive up to its first await: Stop Live in live mode, Start
\* Live otherwise.  The button is disabled for a blank prompt.
handleToggleLive(in) ==
  /\ Trim(live.prompt) # <<>>
  /\ IF livePanel.isLive
       THEN /\ livePanel.stops < MaxCancels
            /\ LiveCommit([LiveCtx EXCEPT
                 !.lp = [@ EXCEPT !.isLive = FALSE, !.cancelledRef = TRUE,
                                  !.stops = @ + 1],
                 !.cancelReqs = IF livePanel.currentJobRef # NoJob
                                  THEN @ \cup {livePanel.currentJobRef} ELSE @])
       ELSE /\ \E r \in RunIds : livePanel.previews[r].pc = "done"
            /\ LiveCommit(runLivePreview(
                 [LiveCtx EXCEPT !.lp = [@ EXCEPT !.isLive = TRUE]], (CHOOSE r \in RunIds : livePanel.previews[r].pc = "done"), in))

\* handleToggleLive after cancelJob and deletePreviewLayer have answered.
LiveStopReturns ==
  /\ livePanel.stops > 0
  /\ LiveCommit([LiveCtx EXCEPT !.lp = [@ EXCEPT !.stops = @ - 1],
                                !.progress = 0, !.isGenerating = FALSE])

\* A timer of the panel fires: the debounce timer of the effect, which
\* calls runLivePreview unless the panel was refreshing when it was set, or
\* the reset of the progress bar.
LiveTimer(in) ==
  \/ /\ livePanel.timer
     /\ \E r \in RunIds : livePanel.previews[r].pc = "done"
     /\ LET c == [LiveCtx EXCEPT !.lp = [@ EXCEPT !.timer = FALSE]]
        IN LiveCommit(IF livePanel.isRefreshing THEN c
                                                ELSE runLivePreview(c, (CHOOSE r \in RunIds : livePanel.previews[r].pc = "done"), in))
  \/ /\ livePanel.resets > 0
     /\ LiveCommit([LiveCtx EXCEPT !.lp = [@ EXCEPT !.resets = @ - 1], !.progress = 0])

\* An edit of the configuration in the live panel: the effect sets its
\* timer anew.
LiveEdit(strength) ==
  /\ edits < MaxEdits
  /\ strength # live.strength
  /\ live' = [live EXCEPT !.strength = strength]
  /\ edits' = edits + 1
  /\ livePanel' = [livePanel EXCEPT !.timer = livePanel.isLive]
  /\ alertMsg' = <<>>
  /\ UNCHANGED <<dropped, log, heap, queue, queueRef, nextItem, isGenerating,
                 isGeneratingR, progress, currentJobRef, cancelledRef, runs,
                 cancelCalls, cancelReqs, idleTimers, nSent, backend, groups,
                 started, opened>>

\* The live panel.  What the calls of a task answer with: all is well and
\* the job is in any status, or one thing is wrong.
NextLive ==
  LET well == [ok |-> TRUE, hasDoc |-> TRUE, isConnected |-> TRUE,
               st |-> "finished", n |-> 1]
      LiveInputs ==
        {[well EXCEPT !.st = st] : st \in Statuses}
          \cup {[well EXCEPT !.ok = FALSE], [well EXCEPT !.hasDoc = FALSE],
                 [well EXCEPT !.isConnected = FALSE], [well EXCEPT !.n = 0]}
  IN \/ \E in \in LiveInputs : LiveRefresh(in)
     \/ \E in \in LiveInputs : handleToggleLive(in)
     \/ \E r \in RunIds : \E in \in LiveInputs : LiveStep(r, in)
     \/ LiveStopReturns
     \/ \E in \in LiveInputs : LiveTimer(in)
     \/ \E strength \in {50, FullStrength} : LiveEdit(strength)

SpecLive == Init /\ [][NextLive]_vars

\* The queue by itself: the queue handlers of the panel and the calls of
\* takeNextQueueItem a run makes when it moves on, each recorded in the log
\* with the id it inserted, removed or returned (0 = null).
LogCall(op, id) ==
  /\ Len(log) < MaxLog
  /\ log' = Append(log, [op |-> op, id |-> id])

QueueBack == nextItem <= MaxQueued /\ handleQueueCurrent /\ LogCall("back", nextItem)

QueueFront == nextItem <= MaxQueued /\ handleQueueFront /\ LogCall("front", nextItem)

QueueReplace == nextItem <= MaxQueued /\ handleQueueReplace /\ LogCall("replace", nextItem)

QueueRemove == \E id \in 1..MaxQueued : removeQueueItem(id) /\ LogCall("remove", id)

QueueClear == clearQueue /\ LogCall("clear", 0)

\* const next = takeNextQueueItem(), called by a resumed run
TakeNext ==
  /\ Rendered
  /\ LET t == takeNextQueueItem(Ctx(1))
     IN /\ queue' = t.c.queue
        /\ LogCall("take", IF t.has THEN t.item.id ELSE 0)
  /\ alertMsg' = <<>>
  /\ opened' = FALSE
  /\ UNCHANGED <<livePanel, dropped, live, heap, edits, queueRef, nextItem, isGenerating,
                 isGeneratingR, progress, currentJobRef, cancelledRef, runs,
                 cancelCalls, cancelReqs, idleTimers, nSent, backend, groups, started>>

NextQueue ==
  \/ QueueBack
  \/ QueueFront
  \/ QueueReplace
  \/ QueueRemove
  \/ QueueClear
  \/ TakeNext
  \/ Render

SpecQueue == Init /\ [][NextQueue]_vars

\* The queue operations while jobs run: Generate, enqueue, replace, remove
\* and clear, and runs in which every request succeeds and which take the
\* next item when their job is done.
GenerateOps == NoLiveRun /\ HandleGenerateStart(TRUE)

OpsBack == nextItem <= MaxQueued /\ handleQueueCurrent /\ UNCHANGED log

OpsReplace == nextItem <= MaxQueued /\ handleQueueReplace /\ UNCHANGED log

OpsRemove == \E id \in 1..MaxQueued : removeQueueItem(id) /\ UNCHANGED log

OpsClear == clearQueue /\ UNCHANGED log

OpsRunStepOf(r) ==
  \/ RunSelection(r, FALSE)
  \/ RunSubmit(r, TRUE, TRUE)
  \/ RunWake(r, TRUE)
  \/ /\ runs[r].pc = "status"
     /\ \E in \in StatusInputs(backend[runs[r].job]) :
          in.ok /\ in.hasDoc /\ RunStatus(r, in)
  \/ RunImages(r, TRUE, 1, TRUE)

NextOps ==
  \/ GenerateOps
  \/ OpsBack
  \/ OpsReplace
  \/ OpsRemove
  \/ OpsClear
  \/ \E r \in RunIds : OpsRunStepOf(r)
  \/ Render
  \/ IdleReset
  \/ \E j \in JobIds : \E st \in {"executing", "finished"} : BackendStep(j, st)

SpecOps == Init /\ [][NextOps]_vars

\* ---------------------------------------------------------------- claims

\* C1  Single active job: at most one run is inside its submitting-or-polling
\* window (generate request in flight, poll sleep, status request or image
\* fetch) at any time.
C1_SingleActiveJob == Cardinality({r \in RunIds : InWindow(r)}) <= 1

\* Run r is told by a status response that its job ended in error.
ErrorEnd(r) ==
  /\ runs[r].pc = "status"
  /\ backend[runs[r].job] = "error"
  /\ runs'[r] # runs[r]

\* C2  Error halts the queue: the step that handles a job's `error` status
\* leaves the queue as it is, ends the run without taking or starting an
\* item and without a new request, and returns the panel to idle; and once
\* no run is left, nothing but a user action takes an item or sends a request.
C2_ErrorHaltsQueue ==
  [][ /\ \A r \in RunIds :
           ErrorEnd(r) =>
             /\ queue' = queue
             /\ runs'[r] = DoneRun
             /\ nSent' = nSent
             /\ started' = started
             /\ ~isGenerating' /\ progress' = 0 /\ currentJobRef' = NoJob
      /\ (NoLiveRun /\ ~UserStep) =>
             /\ NoLiveRun'
             /\ queue' = queue
             /\ nSent' = nSent
             /\ started' = started ]_vars

\* A job has just ended in error with two items waiting, and no run is left.
C2_Witness ==
  /\ Len(alertMsg) = 2 /\ alertMsg[2] = "out of memory"
  /\ Len(queue) = 2
  /\ NoLiveRun

QueueIds(q) == [i \in 1..Len(q) |-> q[i].id]

\* The user has cancelled the active job while two items were waiting.
CancelledWithTwoQueued == cancelReqs # {} /\ Len(queue) = 2

\* The first of the two items was taken and started; the second is the one
\* still queued.  Items are numbered in the order they are queued and are
\* only queued at the back here, so the item taken ahead of the one left
\* carries the preceding number.
FirstTakenAndStarted ==
  /\ Len(queue) = 1
  /\ queue[1].id - 1 \in started

ErrorShown == alertMsg # <<>> /\ alertMsg[1] = "Generation failed: "

\* Nothing is pending: no run, no cancel request, no render, no timer.
AtRest == NoLiveRun /\ PendingCancels = 0 /\ Rendered /\ idleTimers = 0

CancelledRunPending ==
  \E r \in RunIds : InWindow(r) /\ runs[r].job \in cancelReqs

IsSuffix(a, b) == Len(a) <= Len(b) /\ SubSeq(b, Len(b) - Len(a) + 1, Len(b)) = a

\* back(A); front(B); back(C) on the empty queue, A = 1, B = 2, C = 3.
BackFrontBack ==
  <<[op |-> "back", id |-> 1], [op |-> "front", id |-> 2], [op |-> "back", id |-> 3]>>

\* After back(A); front(B); back(C) the takes that follow return B, A, C
\* and then null.
ScenarioOrder ==
  (/\ Len(log) > 3
   /\ SubSeq(log, 1, 3) = BackFrontBack
   /\ \A k \in 4..Len(log) : log[k].op = "take")
  => \A k \in 4..Len(log) :
       log[k].id = IF k <= 6 THEN <<2, 1, 3>>[k - 3] ELSE 0

\* What one queue operation does to the order of the queue.
StepOrder ==
  log' # log =>
    LET e == log'[Len(log')] IN
    /\ e.op = "back" => QueueIds(queue') = Append(QueueIds(queue), e.id)
    /\ e.op = "front" =>
         /\ Head(queue').id = e.id
         /\ IsSuffix(QueueIds(queue), QueueIds(Tail(queue')))
         /\ Rendered => Tail(queue') = queue
    /\ e.op = "take" =>
         IF queue = <<>> THEN e.id = 0 /\ queue' = <<>>
                         ELSE e.id = Head(queue).id /\ queue' = Tail(queue)

\* C4  Queue ordering: back(A); front(B); back(C) on the empty queue makes
\* the following takes return B, A, C, null; an item put in front becomes the
\* head with the items already queued behind it in their order, an item put
\* at the back goes behind all of them, and a take returns the head.
C4_QueueOrdering == [][StepOrder /\ ScenarioOrder']_vars

\* back(A); front(B); back(C) and four takes have been made.
C4_Witness ==
  /\ Len(log) = 7
  /\ SubSeq(log, 1, 3) = BackFrontBack
  /\ QueueIds(SubSeq(log, 4, 7)) = <<2, 1, 3, 0>>
  /\ \A k \in 4..7 : log[k].op = "take"

\* A run that polls a job: it has the job's id and is in its poll loop or
\* fetches the images.
Polling(r) == runs[r].pc \in {"sleep", "status", "images"}

Idle == ~isGenerating /\ currentJobRef = NoJob

\* Cancel All empties the queue and cancels every job a run polls.
CancelAllStep ==
  handleCancelAll =>
    /\ queue' = <<>>
    /\ \A r \in RunIds :
         Polling(r) => cancelledRef' /\ runs[r].job \in cancelReqs'

\* No item removed by Cancel All is started.
DroppedNotStarted == (started' \ started) \cap dropped'.ids = {}

\* When nothing is pending after a Cancel All, the panel is idle.
RestIdle == (dropped.used /\ AtRest) => Idle

\* C5  Cancel All: the step empties the queue, sets the cancel flag and
\* requests a backend cancel for the job a run polls; no item it removed is
\* started afterwards; and once nothing is pending the panel is idle.
C5_CancelAll == [][CancelAllStep /\ DroppedNotStarted /\ RestIdle']_vars

\* C6  Round trip of results: the step in which the image fetch of a finished
\* job returns n >= 1 images appends exactly one group, after the groups
\* recorded before, with n entries; entry i has index i (from 0), is not
\* applied and has the seed the backend reported at index i.
C6_ResultRoundTrip ==
  [][\A r \in RunIds, n \in 1..MaxImages, hasDoc \in BOOLEAN :
       (/\ runs[r].pc = "images"
        /\ backend[runs[r].job] = "finished"
        /\ RunImages(r, TRUE, n, hasDoc)) =>
         /\ Len(groups') = Len(groups) + 1
         /\ SubSeq(groups', 1, Len(groups)) = groups
         /\ LET g == groups'[Len(groups')]
                resp == JobImages(runs[r].job, n)
            IN /\ g.job_id = runs[r].job
               /\ Len(g.images) = n
               /\ \A i \in 1..n :
                    /\ g.images[i].index = i - 1
                    /\ g.images[i].applied = FALSE
                    /\ g.images[i].seed = resp.seeds[i]
                    /\ g.images[i].thumbnail = resp.images[i]]_vars

\* A job with one image and a job with two images have been recorded.
C6_Witness ==
  /\ Len(groups) = 2
  /\ Len(groups[1].images) = 1
  /\ Len(groups[2].images) = 2
  /\ groups[2].images[2].seed = 10 * groups[2].job_id + 2

Pair == {"image", "strength"}

\* C7 as stated: a request built from a snapshot with strength 100 carries
\* neither image nor strength; one built from a strength below 100 carries
\* both, with strength snapshot.strength / 100.
C7_Threshold_AsStated ==
  \A r \in RunIds :
    runs[r].req # NoReq =>
      LET s == runs[r].snap
          q == runs[r].req
      IN IF s.strength = FullStrength
           THEN Pair \cap DOMAIN q = {}
           ELSE Pair \subseteq DOMAIN q
                /\ q.strength = [num |-> s.strength, den |-> 100]

\* C7  Refine vs. generate threshold: a request built from a snapshot with
\* strength below 100 carries image and strength = snapshot.strength / 100;
\* one built from strength 100 carries neither when no selection mask was
\* captured, and the document image with strength 100 / 100 when one was.
C7_Threshold ==
  \A r \in RunIds :
    runs[r].req # NoReq =>
      LET s == runs[r].snap
          q == runs[r].req
      IN IF s.strength = FullStrength /\ runs[r].mask = NoMask
           THEN Pair \cap DOMAIN q = {}
           ELSE /\ Pair \subseteq DOMAIN q
                /\ q.strength = [num |-> s.strength, den |-> 100]
                /\ q.image = "doc"

\* A request was sent for a strength-100 snapshot with a selection mask.
C7_Witness ==
  \E r \in RunIds :
    /\ runs[r].req # NoReq
    /\ runs[r].snap.strength = FullStrength
    /\ runs[r].mask # NoMask
    /\ runs[r].pc = "submit"

\* C8  Inpaint precondition: a run whose snapshot has an inpaint mode other
\* than 'automatic' and that learns there is no selection (it does not go on
\* to capture the mask) ends with the alert 'No active selection found for
\* inpaint.', sends no request, and leaves isGenerating false and progress 0.
C8_InpaintRefused ==
  [][\A r \in RunIds :
       (/\ runs[r].pc = "sel"
        /\ runs[r].snap.inpaintMode # "automatic"
        /\ runs'[r] # runs[r]
        /\ runs'[r].pc # "mask") =>
         /\ alertMsg' = NoSelectionMsg
         /\ runs'[r] = DoneRun
         /\ nSent' = nSent
         /\ ~isGenerating' /\ progress' = 0
         /\ queue' = queue /\ groups' = groups]_vars

\* A run in inpaint mode 'fill' has just been refused.
C8_Witness ==
  /\ alertMsg = NoSelectionMsg
  /\ live.inpaintMode = "fill"
  /\ NoLiveRun
  /\ nSent = 0

\* The request of a run carries the values of the run's snapshot.
RequestOf(h, run) ==
  LET s == run.snap
      q == run.req
  IN /\ q.prompt = s.prompt
     /\ q.negative_prompt = s.negativePrompt
     /\ q.seed = (IF s.fixedSeed THEN s.seed ELSE -1)
     /\ q.inpaint_mode = s.inpaintMode
     /\ (s.strength < FullStrength => q.strength.num = s.strength)
     /\ Len(run.control) = Len(ActiveControlLayers(h, s))
     /\ \A k \in 1..Len(run.control) :
          /\ run.control[k].mode = mapControlMode(ActiveControlLayers(h, s)[k].mode)
          /\ run.control[k].strength = ActiveControlLayers(h, s)[k].strength
     /\ Len(run.regionArgs) = Len(ActiveRegions(h, s))
     /\ \A k \in 1..Len(run.regionArgs) :
          run.regionArgs[k].positive = ActiveRegions(h, s)[k].prompt

InterruptedEnd(r) ==
  /\ runs[r].pc = "images"
  /\ backend[runs[r].job] = "interrupted"
  /\ runs'[r] # runs[r]
  /\ ~\E n \in 0..MaxImages, hasDoc \in BOOLEAN : RunImages(r, FALSE, n, hasDoc)

\* C10  An interrupted job is a clean stop: the run that was told its job
\* was interrupted shows no failure alert and goes on to the queue as after
\* a success; it takes the first waiting item, if there is one, and starts it.
C10_InterruptedCleanStop ==
  [][\A r \in RunIds :
       InterruptedEnd(r) =>
         /\ ~ErrorShown'
         /\ queue # <<>> => (queue' = Tail(queue) /\ Head(queue).id \in started')]_vars

\* C11  Single-writer register: the steps of the user's cancel actions, the
\* Cancel and Cancel All handlers up to their await and after it, leave
\* currentJobRef.current as it is; only runGeneration writes it.
C11_SingleWriter ==
  [][(HandleGenerateCancel \/ handleCancelAll \/ CancelAnswered) =>
       currentJobRef' = currentJobRef]_vars

\* The job run r was handling has reached a terminal state on the backend.
PreviousEnded(r) == backend[runs[r].job] \in Terminal

\* The result of the job run r was handling is recorded by the step, or its
\* handling was skipped because the user had cancelled the job.
PreviousHandled(r) ==
  \/ runs[r].job \in cancelReqs
  \/ \E g \in 1..Len(groups') : groups'[g].job_id = runs[r].job

\* C12  Strictly sequential advancement: the step in which a run leaves its
\* job, takes the next item from the queue and starts it (the generate
\* request of the item follows from that step) happens only when the job has
\* reached a terminal state on the backend and its result was recorded or
\* skipped because of a cancel.
C12_Sequential ==
  [][\A r \in RunIds :
       (/\ runs[r].job # NoJob
        /\ runs'[r].item # runs[r].item
        /\ runs'[r].item \in started' \ started) =>
         PreviousEnded(r) /\ PreviousHandled(r)]_vars

\* The latest step ended a run with a failure: no document was open, or the
\* error handler of runGeneration ran (a capture, the submit, a status poll,
\* a job error, an empty result or the image fetch failed).
FailureShown == alertMsg = NoDocumentMsg \/ ErrorShown

CleanIdle == ~isGenerating /\ progress = 0 /\ currentJobRef = NoJob

\* C13  Every failure returns the panel to a clean idle state: the step that
\* reports a failure leaves isGenerating false, progress 0 and no active job
\* id, and the step after it, unless it is a user action, leaves them so.
C13_FailureIdle ==
  [][/\ FailureShown' => CleanIdle'
     /\ (FailureShown /\ ~UserStep) => CleanIdle']_vars

\* The user has cancelled the active job while the first item ever queued
\* (items are numbered in the order they are queued) was still waiting.
CancelledWithFirstQueued ==
  cancelReqs # {} /\ queue # <<>> /\ Head(queue).id = 1

HeadTakenAndStarted ==
  /\ 1 \in started
  /\ \A i \in 1..Len(queue) : queue[i].id # 1

NoImagesMsg == FailedMsg(<<"No images generated">>)

\* C15  Empty result is an error: the step in which the image fetch of a
\* finished job answers with zero images records no group, reports
\* 'No images generated' and ends as a job error does: the run is over, the
\* panel is idle, the queue is as it was, no item is started and no request
\* is sent.
C15_EmptyResultIsError ==
  [][\A r \in RunIds, hasDoc \in BOOLEAN :
       (/\ runs[r].pc = "images"
        /\ backend[runs[r].job] = "finished"
        /\ RunImages(r, TRUE, 0, hasDoc)) =>
         /\ groups' = groups
         /\ alertMsg' = NoImagesMsg
         /\ runs'[r] = DoneRun
         /\ CleanIdle'
         /\ queue' = queue /\ started' = started /\ nSent' = nSent
         /\ idleTimers' = idleTimers]_vars

\* A finished job has just been found to have no images, with an item
\* waiting in the queue.
C15_Witness ==
  /\ alertMsg = NoImagesMsg
  /\ \E j \in JobIds : backend[j] = "finished"
  /\ queue # <<>>
  /\ groups = <<>>
  /\ NoLiveRun

\* The group of job 1 in the scenario: two entries, not applied, seeds 11, 12.
ScenarioGroup(s) ==
  [job_id |-> 1, prompt |-> s.prompt, negative_prompt |-> s.negativePrompt,
   strength |-> FullStrength,
   images |-> <<[index |-> 0, thumbnail |-> 101, applied |-> FALSE, seed |-> 11],
                [index |-> 1, thumbnail |-> 102, applied |-> FALSE, seed |-> 12]>>]

\* C16  End to end with an empty queue: when the image fetch of the finished
\* job 1, submitted from a snapshot with strength 100 and batch size 2,
\* answers with 2 images with seeds 11 and 12 while the queue is empty, the
\* step records one group with the two entries (not applied, seeds 11 and
\* 12), ends the run without taking an item or sending a request and leaves
\* the idle reset pending; the idle reset clears isGenerating and progress;
\* and with no run and no idle reset left the panel is idle.
C16_EndToEnd ==
  [][/\ \A r \in RunIds, hasDoc \in BOOLEAN :
          (/\ runs[r].pc = "images"
           /\ runs[r].job = 1 /\ backend[1] = "finished"
           /\ runs[r].snap.strength = FullStrength
           /\ runs[r].snap.batchSize = 2 /\ runs[r].req.batch_size = 2
           /\ queue = <<>>
           /\ RunImages(r, TRUE, 2, hasDoc)) =>
            /\ groups' = Append(groups, ScenarioGroup(runs[r].snap))
            /\ runs'[r] = DoneRun
            /\ nSent' = nSent /\ started' = started /\ queue' = <<>>
            /\ currentJobRef' = NoJob
            /\ idleTimers' = idleTimers + 1
     /\ IdleReset => ~isGenerating' /\ progress' = 0
     /\ (NoLiveRun' /\ idleTimers' = 0) => CleanIdle']_vars

\* The scenario has run to its end: the group of job 1 is recorded, nothing
\* else was sent, and the panel is idle.
C16_Witness ==
  /\ groups = <<ScenarioGroup(live)>>
  /\ live.strength = FullStrength
  /\ nSent = 1 /\ backend[1] = "finished"
  /\ NoLiveRun /\ idleTimers = 0 /\ Rendered
  /\ CleanIdle

\* The step leaves the active job alone: its id, the cancel flag, the runs,
\* the generating flag and progress, the requests sent and the backend.
JobUntouched ==
  /\ currentJobRef' = currentJobRef /\ cancelledRef' = cancelledRef
  /\ runs' = runs
  /\ isGenerating' = isGenerating /\ progress' = progress
  /\ nSent' = nSent /\ backend' = backend
  /\ cancelCalls' = cancelCalls /\ groups' = groups

\* The queue after the step is the queue before it without the item with
\* this id, the others in their order; the same queue if no item has the id.
RemovedExactly(id) ==
  IF \E k \in 1..Len(queue) : queue[k].id = id
    THEN \E k \in 1..Len(queue) :
           /\ queue[k].id = id
           /\ queue' = SubSeq(queue, 1, k - 1) \o SubSeq(queue, k + 1, Len(queue))
    ELSE queue' = queue

\* C17  Queue operations match their list reference: remove(id) deletes
\* exactly the item with that id and keeps the others in order (nothing for
\* an id not in the queue); clear leaves the queue empty; replace leaves the
\* queue equal to the one new item; a run that takes from the empty queue
\* gets nothing, starts nothing and leaves the queue empty; and remove, clear
\* and replace leave the active job alone.
C17_QueueOps ==
  [][/\ \A id \in 1..MaxQueued :
          removeQueueItem(id) => RemovedExactly(id) /\ JobUntouched
     /\ clearQueue => queue' = <<>> /\ JobUntouched
     /\ handleQueueReplace =>
          queue' = <<[id |-> nextItem, snapshot |-> buildSnapshot]>> /\ JobUntouched
     /\ \A r \in RunIds :
          (runs[r].pc = "images" /\ runs'[r] # runs[r] /\ queue = <<>>) =>
            queue' = <<>> /\ started' = started /\ runs'[r] = DoneRun]_vars

\* While a job is polled, of the items 1, 2, 3 queued after one another
\* 1 and 3 are left: 2 was removed from between them.
C17_Witness ==
  /\ QueueIds(queue) = <<1, 3>>
  /\ nextItem = 4
  /\ currentJobRef # NoJob
  /\ \E r \in RunIds : Polling(r)

\* C18  History is append-only: a step that changes the history appends
\* exactly one group at its end, the group of the job whose images a run
\* had fetched, and leaves the groups recorded before as they were; no
\* group is merged with, replaced by or dropped for another, also when two
\* jobs have the same prompt; and no job is recorded twice.
C18_AppendOnly ==
  [][groups' # groups =>
       /\ Len(groups') = Len(groups) + 1
       /\ SubSeq(groups', 1, Len(groups)) = groups
       /\ \E r \in RunIds :
            /\ runs[r].pc = "images"
            /\ groups'[Len(groups')].job_id = runs[r].job
            /\ groups'[Len(groups')].prompt = runs[r].snap.prompt
            /\ Len(groups'[Len(groups')].images) > 0
       /\ \A g \in 1..Len(groups) :
            groups[g].job_id # groups'[Len(groups')].job_id]_vars

\* Two jobs with the same prompt have been recorded as two groups.
C18_Witness ==
  /\ Len(groups) = 2
  /\ groups[1].prompt = groups[2].prompt
  /\ groups[1].job_id # groups[2].job_id

\* The user has cancelled the job run r is handling.
CancelledJob(r) == runs[r].job # NoJob /\ runs[r].job \in cancelReqs

\* Run r issues a new status poll for its job: it wakes from the poll sleep
\* and sends the status request.
NewPoll(r) ==
  runs[r].pc = "sleep" /\ runs'[r].pc = "status" /\ runs'[r].job = runs[r].job

\* Run r issues the image fetch for its job.
NewFetch(r) ==
  runs[r].pc # "images" /\ runs'[r].pc = "images" /\ runs'[r].job = runs[r].job

\* The step records a group for the job of run r.
Records(r) ==
  /\ groups' # groups
  /\ groups'[Len(groups')].job_id = runs[r].job

\* A cancel leaves every run where it is, its request in flight included.
NoPreemption ==
  (HandleGenerateCancel \/ handleCancelAll \/ CancelAnswered) => runs' = runs

\* C19  Cooperative cancellation: a cancel action changes no run; and a run
\* whose job the user has cancelled issues no new status poll and no image
\* fetch for the job and records no group for it.
C19_CooperativeCancel ==
  [][/\ NoPreemption
     /\ \A r \in RunIds :
          CancelledJob(r) => ~NewPoll(r) /\ ~NewFetch(r) /\ ~Records(r)]_vars

\* The place of an await in the lifecycle of one job.
Rank(pc) ==
  CASE pc = "sel"     -> 1
    [] pc = "mask"    -> 2
    [] pc = "doc"     -> 3
    [] pc = "control" -> 4
    [] pc = "regions" -> 5
    [] pc = "submit"  -> 6
    [] pc = "sleep"   -> 7
    [] pc = "status"  -> 8
    [] pc = "images"  -> 9
    [] OTHER          -> 10

\* Run r goes from one await to the next within the lifecycle of one job.
SameJobStep(r) ==
  /\ Live(r) /\ runs'[r].pc # "done"
  /\ runs'[r] # runs[r]
  /\ runs'[r].item = runs[r].item

\* C20  Lifecycle ordering inside one job: a run moves forward through
\* selection check, selection mask, document image, control layers, regions,
\* submit, poll, fetch, going back only from a status response to the next
\* poll sleep (and staying in the control layers from one layer to the
\* next); the request is sent only after the captures, a status request
\* only after a poll sleep that follows the submit response, and the image
\* fetch only after a status response for a job that has ended.
C20_LifecycleOrder ==
  [][\A r \in RunIds :
       SameJobStep(r) =>
         LET from == runs[r].pc
             to   == runs'[r].pc
         IN /\ \/ Rank(to) > Rank(from)
               \/ from = "status" /\ to = "sleep"
               \/ from = "control" /\ to = "control" /\ runs'[r].k > runs[r].k
            /\ to = "submit" =>
                  /\ Rank(from) < Rank("submit")
                  /\ runs'[r].req # NoReq /\ runs[r].req = NoReq
                  /\ runs[r].mask # NoMask => runs[r].image = "doc" \/ from = "doc"
                  /\ Len(runs'[r].control) = Len(ActiveControlLayers(heap, runs[r].snap))
            /\ to = "sleep" =>
                  \/ from = "submit" /\ backend'[runs[r].job] = "queued"
                  \/ from = "status"
            /\ to = "status" => from = "sleep"
            /\ to = "images" =>
                  from = "status" /\ backend[runs[r].job] \in {"finished", "interrupted"}
            /\ runs'[r].job # runs[r].job => from # "submit" /\ to = "submit"]_vars

\* A run has gone through every step: selection mask, document image, one
\* control layer and one region captured, request sent, job polled to its
\* end, images being fetched.
C20_Witness ==
  \E r \in RunIds :
    /\ runs[r].pc = "images"
    /\ runs[r].mask # NoMask /\ runs[r].image = "doc"
    /\ Len(runs[r].control) = 1 /\ Len(runs[r].regionArgs) = 1
    /\ backend[runs[r].job] = "finished"

\* C21  Attachment rule: a request that was sent carries `image` exactly
\* when the snapshot's strength is below 100 or a selection mask was
\* captured, and `mask` exactly when a selection mask was captured; the
\* document image was captured exactly when `image` is attached, and the
\* request carries the captured image and mask.
C21_AttachmentRule ==
  \A r \in RunIds :
    runs[r].req # NoReq =>
      LET s == runs[r].snap
          q == runs[r].req
          masked == runs[r].mask # NoMask
      IN /\ "image" \in DOMAIN q <=> (s.strength < FullStrength \/ masked)
         /\ "mask" \in DOMAIN q <=> masked
         /\ runs[r].image # NoImage <=> "image" \in DOMAIN q
         /\ "image" \in DOMAIN q => q.image = runs[r].image
         /\ "mask" \in DOMAIN q => q.mask = runs[r].mask

\* Requests of all three kinds can be sent: here one with a mask and the
\* image for a strength-100 snapshot, after the document was captured.
C21_Witness ==
  \E r \in RunIds :
    /\ runs[r].req # NoReq
    /\ runs[r].snap.strength = FullStrength
    /\ runs[r].mask # NoMask /\ runs[r].image = "doc"
    /\ {"image", "mask"} \subseteq DOMAIN runs[r].req
    /\ runs[r].pc = "sleep"

CaptureFailure(r) ==
  /\ runs[r].pc \in {"mask", "doc"}
  /\ runs'[r] = DoneRun

\* C23  Capture errors abort only the current job: a run that ends at the
\* capture of the selection mask or of the document image shows a failure
\* alert, sends no request, leaves the queue and the history as they are
\* and the panel idle; a run that finds no document open sends no request,
\* leaves the items waiting behind its own in their order, starts nothing
\* and leaves the panel idle.
C23_CaptureErrors ==
  [][/\ \A r \in RunIds :
          CaptureFailure(r) =>
            /\ ErrorShown'
            /\ nSent' = nSent
            /\ queue' = queue /\ started' = started /\ groups' = groups
            /\ CleanIdle'
     /\ alertMsg' = NoDocumentMsg =>
          /\ nSent' = nSent
          /\ queue' = queue \/ (queue # <<>> /\ queue' = Tail(queue))
          /\ \A r \in RunIds : runs'[r] = runs[r] \/ runs'[r] = DoneRun
          /\ CleanIdle']_vars

\* The capture of the document has just failed with an item waiting and
\* nothing sent.
C23_Witness ==
  /\ alertMsg = FailedMsg(<<"Failed to capture document: Unknown error">>)
  /\ queue # <<>>
  /\ nSent = 0
  /\ NoLiveRun /\ CleanIdle

\* The fallback message of the request a run waits for.
Fallback(pc) ==
  CASE pc = "submit" -> "Generation failed"
    [] pc = "status" -> "Failed to get job status"
    [] OTHER         -> "Failed to get job images"

\* The request run r waits for is answered with a non-success response.
TransportFailure(r) ==
  \/ \E hasDoc \in BOOLEAN : RunSubmit(r, FALSE, hasDoc)
  \/ /\ runs[r].pc = "status"
     /\ \E in \in StatusInputs(backend[runs[r].job]) : ~in.ok /\ RunStatus(r, in)
  \/ \E n \in 0..MaxImages, hasDoc \in BOOLEAN : RunImages(r, FALSE, n, hasDoc)

C25_PaymentRequired ==
  [][\A r \in RunIds : \A in \in StatusInputs("error") :
       (/\ runs[r].pc = "status"
        /\ backend[runs[r].job] = "error"
        /\ in.ok
        /\ RunStatus(r, in)) =>
         /\ opened' = (in.payment = "url" /\ in.confirm)
         /\ alertMsg' = FailedMsg(<<IF in.error # "" THEN in.error
                                     ELSE "Generation failed">>)
         /\ runs'[r] = DoneRun
         /\ queue' = queue /\ started' = started /\ nSent' = nSent
         /\ CleanIdle']_vars

\* The user confirmed and the billing page was opened; the job failed with
\* the backend's message while an item was waiting.
C25_Witness ==
  /\ opened
  /\ alertMsg = FailedMsg(<<"out of memory">>)
  /\ queue # <<>>
  /\ NoLiveRun

\* The regions of the request run r sends are active regions of its
\* snapshot, in their order, each with its prompt and a mask.
RegionsSent(r) ==
  LET act == ActiveRegions(heap, runs[r].snap)
      req == runs'[r].req
      args == IF "regions" \in DOMAIN req THEN req.regions ELSE <<>>
  IN \E masked \in SUBSET (1..Len(act)) : args = RegionArgs(act, masked)

\* C26  Control-layer vs. region asymmetry: a control layer whose capture or
\* preprocessing fails aborts the run with the alert 'Failed to process
\* control layer "<name>"' and no request is sent; whereas the step that
\* builds the region arguments never aborts the run: the request is sent,
\* with the regions a mask was obtained for.
C26_Asymmetry ==
  [][\A r \in RunIds :
       /\ (/\ runs[r].pc = "control"
           /\ runs[r].k <= Len(ActiveControlLayers(heap, runs[r].snap))
           /\ RunControlLayer(r, FALSE)) =>
            /\ alertMsg' = FailedMsg(<<"Failed to process control layer ",
                                       ActiveControlLayers(heap, runs[r].snap)[runs[r].k].layerName>>)
            /\ nSent' = nSent
            /\ runs'[r] = DoneRun
       /\ (runs[r].pc = "regions" /\ runs'[r] # runs[r]) =>
            /\ runs'[r].pc = "submit"
            /\ nSent' = nSent + 1
            /\ RegionsSent(r)]_vars

\* The status poll of run r is answered with status st and takes the run
\* round its loop (no cancel is pending).
StatusSeen(r, in, st) ==
  /\ runs[r].pc = "status"
  /\ backend[runs[r].job] = st
  /\ in.ok
  /\ ~cancelledRef
  /\ RunStatus(r, in)

\* The mapping of C27 alone.
ProgressMapped ==
  \A r \in RunIds :
    /\ \A in \in StatusInputs("queued") :
         StatusSeen(r, in, "queued") => progress' = 0
    /\ \A in \in StatusInputs("executing") :
         StatusSeen(r, in, "executing") => progress' = in.fraction
    /\ \A in \in StatusInputs("finished") :
         StatusSeen(r, in, "finished") => progress' = 100

\* No generation is shown, no job is active and no run is under way.
OrchestratorIdle == ~isGenerating /\ currentJobRef = NoJob /\ NoLiveRun

\* C27  Status-to-progress mapping: a queued status sets progress to 0, an
\* executing status sets it to the fraction the backend reports, a finished
\* status sets it to 1 (100 percent); progress is within 0..100 in every
\* reachable state, and it is 0 whenever the orchestrator is idle.
C27_ProgressMapping ==
  [][/\ ProgressMapped
     /\ progress' \in 0..100
     /\ OrchestratorIdle' => progress' = 0]_vars

\* Text u stands in text out, as one piece.
Contains(out, u) ==
  \E i \in 0..(Len(out) - Len(u)) : SubSeq(out, i + 1, i + Len(u)) = u

\* Text out is the template with the user's prompt in the place of its
\* placeholder; an empty template wraps nothing.
WrappedBy(template, u, out) ==
  IF template = <<>> THEN out = u
  ELSE /\ Contains(out, u)
       /\ \A i \in 1..Len(template) :
            template[i] = Placeholder =>
              \/ out = SubSeq(template, 1, i - 1) \o u
                         \o SubSeq(template, i + 1, Len(template))
              \/ \E k \in 1..(i - 1) : template[k] = Placeholder

\* Text out is the style's negative prompt with the user's after it.
AppendedAfter(styleNegative, u, out) ==
  /\ Len(out) >= Len(styleNegative) + Len(u)
  /\ SubSeq(out, 1, Len(styleNegative)) = styleNegative
  /\ SubSeq(out, Len(out) - Len(u) + 1, Len(out)) = u

\* The sampler values of the request come from the style exactly when the
\* snapshot has a style and useStyleDefaults is set.
SamplerByStyle(s, q) ==
  LET byStyle == s.style # NoStyle /\ s.useStyleDefaults
      style == s.style[1]
  IN /\ q.sampler = (IF byStyle THEN resolveStyleSampler(style.sampler).sampler
                                ELSE s.sampler)
     /\ q.scheduler = (IF byStyle THEN resolveStyleSampler(style.sampler).scheduler
                                  ELSE s.scheduler)
     /\ q.steps = (IF byStyle THEN style.steps ELSE s.steps)
     /\ q.cfg_scale = (IF byStyle THEN style.cfg_scale ELSE s.cfgScale)

\* The prompts of the request: wrapped and appended when there is a style,
\* the user's own otherwise.
PromptsByStyle(s, q) ==
  IF s.style # NoStyle
    THEN /\ WrappedBy(s.style[1].style_prompt, s.prompt, q.prompt)
         /\ AppendedAfter(s.style[1].negative_prompt, s.negativePrompt,
                          q.negative_prompt)
    ELSE q.prompt = s.prompt /\ q.negative_prompt = s.negativePrompt

\* C28  Style-derived defaults: the sampler, scheduler, steps, cfg scale and
\* checkpoint of a request are the style's exactly when the snapshot has a
\* style and useStyleDefaults is set, and the snapshot's own otherwise (it
\* has no checkpoint of its own: none is sent); with a style, the user's
\* prompt is wrapped by the style's template and the user's negative prompt
\* stands after the style's.
C28_StyleDefaults ==
  \A r \in RunIds :
    runs[r].req # NoReq =>
      LET s == runs[r].snap
          q == runs[r].req
      IN /\ SamplerByStyle(s, q)
         /\ q.model = (IF s.style # NoStyle /\ s.useStyleDefaults
                         THEN getStyleCheckpoint(s.style[1]) ELSE "")
         /\ PromptsByStyle(s, q)

\* The seed and the fixed-seed flag of a configuration or snapshot.
SeedPair(s) == <<s.seed, s.fixedSeed>>

\* C29  Effective seed: the request a run sends carries -1 when the run's
\* snapshot has fixedSeed false and the snapshot's seed when it is true;
\* the seed and the flag of a snapshot are those of the configuration of
\* the moment it was built (a new queue item, a run started by Generate),
\* every step leaves those of the waiting items and of the runs under way
\* as they were, and a run started from an item has the item's.
C29_EffectiveSeed ==
  [][/\ \A j \in 1..Len(queue') :
          IF queue'[j].id = nextItem
            THEN SeedPair(queue'[j].snapshot) = SeedPair(live)
            ELSE \A i \in 1..Len(queue) :
                   queue[i].id = queue'[j].id =>
                     SeedPair(queue'[j].snapshot) = SeedPair(queue[i].snapshot)
     /\ \A r \in RunIds :
          /\ (runs[r].req = NoReq /\ runs'[r].req # NoReq) =>
               /\ SeedPair(runs'[r].snap) = SeedPair(runs[r].snap)
               /\ runs'[r].req.seed = (IF runs[r].snap.fixedSeed THEN runs[r].snap.seed
                                                                 ELSE -1)
          /\ (Live(r) /\ runs'[r].pc # "done" /\ runs'[r].item = runs[r].item) =>
               SeedPair(runs'[r].snap) = SeedPair(runs[r].snap)
          /\ (~Live(r) /\ runs'[r].pc # "done" /\ runs'[r].item = 0) =>
               SeedPair(runs'[r].snap) = SeedPair(live)
          /\ \A i \in 1..Len(queue) :
               (runs'[r].pc # "done" /\ runs'[r].item = queue[i].id
                  /\ runs[r].item # queue[i].id) =>
                 SeedPair(runs'[r].snap) = SeedPair(queue[i].snapshot)]_vars

\* A run started from a queue item has sent its request with the seed the
\* item was built with, after the seed of the configuration was changed.
C29_Witness ==
  \E r \in RunIds :
    /\ runs[r].item > 0
    /\ runs[r].req # NoReq
    /\ runs[r].snap.fixedSeed
    /\ runs[r].req.seed = 1
    /\ live.seed = 2 /\ live.fixedSeed

\* C30  UI/job consistency: whenever a run is between the answer to its
\* submit and the end of its terminal handling (asleep in its poll loop,
\* waiting for a status or for the images) and no cancel was asked for its
\* job, isGenerating is true and currentJobRef holds the job's id.
C30_UIJobConsistency ==
  \A r \in RunIds :
    (runs[r].pc \in {"sleep", "status", "images"} /\ runs[r].job \notin cancelReqs) =>
      isGenerating /\ currentJobRef = runs[r].job

\* The ids of the items in queue q.
IdSet(q) == {q[i].id : i \in 1..Len(q)}

C32_StartedOnce ==
  \A k \in 1..Len(log) : \A m \in (k + 1)..Len(log) :
    (log[m].op = "take" /\ log[m].id # 0) =>
      /\ ~(log[k].op = "take" /\ log[k].id = log[m].id)
      /\ ~(log[k].op = "remove" /\ log[k].id = log[m].id)
      /\ ~(log[k].op = "clear" /\ \E i \in 1..(k - 1) :
              log[i].op \in {"back", "front", "replace"} /\ log[i].id = log[m].id)

\* C33  Cancel before the job id is known: after a Cancel All pressed while
\* the only run was active without a job id, no HistoryGroup is recorded
\* and no job is left queued or executing on the backend without a cancel
\* request for it.
C33_EarlyCancel ==
  dropped.used =>
    /\ groups = <<>>
    /\ \A j \in JobIds : backend[j] \in {"queued", "executing"} => j \in cancelReqs

\* The job of Generate has started with n items waiting.
DrainStart(n) ==
  /\ nSent = 0
  /\ \E r \in RunIds : Live(r) /\ runs[r].item = 0
  /\ Len(queue) = n

\* n + 1 groups are recorded, nothing runs and nothing waits.
Drained(n) ==
  /\ Len(groups) = n + 1
  /\ queue = <<>>
  /\ OrchestratorIdle
  /\ progress = 0

\* Items are numbered as they are queued and jobs as they are sent: the
\* item X_i runs as job i + 1, and no two runs are live at once.
OneAtATimeInOrder ==
  /\ \A r, q \in RunIds : Live(r) /\ Live(q) => r = q
  /\ \A r \in RunIds :
       Live(r) /\ runs[r].job # NoJob => runs[r].job = runs[r].item + 1

HeadRunInstead ==
  /\ queue' = Tail(queueRef)
  /\ Head(queueRef).id \in started'
  /\ \/ /\ isGenerating'
        /\ \E r \in RunIds : /\ runs'[r].pc = "sel"
                              /\ runs'[r].item = Head(queueRef).id
                              /\ runs'[r].snap = Head(queueRef).snapshot
     \/ /\ alertMsg' = NoDocumentMsg
        /\ \A r \in RunIds : runs'[r].pc = "done"

\* C35  Blank-prompt snapshots are skipped: runGeneration on a snapshot
\* whose prompt is empty or a blank sends no request and records nothing;
\* with an empty queue it changes neither isGenerating nor the active job
\* id and leaves no run behind, otherwise it takes the head of the queue
\* and runs that in its place.
C35_BlankSkipped ==
  [][(\E prompt \in {<<>>, <<" ">>} : \E hasDoc \in BOOLEAN : RunBlank(prompt, hasDoc)) =>
       /\ nSent' = nSent /\ backend' = backend /\ groups' = groups
       /\ currentJobRef' = currentJobRef
       /\ IF queueRef = <<>>
            THEN /\ isGenerating' = isGenerating
                 /\ progress' = progress
                 /\ runs' = runs
                 /\ queue' = queue
            ELSE HeadRunInstead]_vars

C35_Witness ==
  /\ nSent = 0
  /\ nextItem = 3
  /\ QueueIds(queue) = <<2>>
  /\ \E r \in RunIds : runs[r].pc = "sel" /\ runs[r].item = 1

\* The groups of the history other than the group of job j.
OtherGroups(gs, j) == SelectSeq(gs, LAMBDA g : g.job_id # j)

\* The images of the group of job j, none if the history has no such group.
ImagesOf(gs, j) ==
  IF \E g \in 1..Len(gs) : gs[g].job_id = j
    THEN gs[CHOOSE g \in 1..Len(gs) : gs[g].job_id = j].images
    ELSE <<>>

\* C36  History never holds an empty group: every group of the history has
\* at least one image whatever was recorded, applied, discarded or cleared;
\* discarding the only image left in a group removes the group; and apply
\* and discard on the group of one job leave the other groups as they were.
C36_NoEmptyGroup ==
  /\ [](\A g \in 1..Len(groups) : Len(groups[g].images) >= 1)
  /\ [][\A jobId \in JobIds : \A index \in 0..MaxImages :
          /\ applyImage(jobId, index) \/ discardImage(jobId, index) =>
               OtherGroups(groups', jobId) = OtherGroups(groups, jobId)
          /\ applyImage(jobId, index) =>
               Len(ImagesOf(groups', jobId)) = Len(ImagesOf(groups, jobId))
          /\ discardImage(jobId, index) /\ index < Len(ImagesOf(groups, jobId)) =>
               /\ Len(ImagesOf(groups', jobId)) = Len(ImagesOf(groups, jobId)) - 1
               /\ Len(ImagesOf(groups, jobId)) = 1 =>
                    \A g \in 1..Len(groups') : groups'[g].job_id # jobId]_vars

\* The only image of group 1 was discarded while group 2, with an applied
\* image, stayed.
C36_Witness ==
  /\ nSent = 2
  /\ Len(groups) = 1
  /\ groups[1].job_id = 2
  /\ \E i \in 1..Len(groups[1].images) : groups[1].images[i].applied

\* The live-preview runs between their submit and their terminal handling.
PreviewsInFlight ==
  {r \in RunIds :
     livePanel.previews[r].pc \in {"submit", "sleep", "status", "images", "layer"}}

\* C37  Live previews never overlap: whatever the order of Start Live,
\* Refresh, Stop Live, edits and the debounce timer, at most one
\* live-preview run is between its submit and its terminal handling, and
\* no generate request is sent while the stop of Stop Live is in force
\* (cancelledRef set and not reset by a new start).
C37_NoOverlap ==
  /\ [](Cardinality(PreviewsInFlight) <= 1)
  /\ [][nSent' # nSent => ~livePanel'.cancelledRef]_vars

====
